---- MODULE Spec2Model ----
(***************************************************************************)
(* The reflection workflow of reflection_workflow_agent.py: a generator    *)
(* (PrimaryAgentExecutor) and a reviewer (ReviewerAgentExecutor) exchange  *)
(* ReviewRequest / ReviewResponse messages until the reviewer approves a   *)
(* candidate or the refinement budget is used up; Agent.chat_async drives  *)
(* one turn and records it in the conversation history.                    *)
(*                                                                         *)
(* A text is a sequence of tokens, so that concatenation is \o and the     *)
(* empty string is << >>.  A ChatMessage is [role, contents]; a content    *)
(* part is [kind, text].                                                   *)
(***************************************************************************)
EXTENDS Integers, Sequences, FiniteSets, TLC

\* ------------------------------------------------------------------ bounds
MaxRefinementsBound == 2

\* the request ids (uuid4 strings) of the turns, in the order they are drawn
RequestIdOrder == <<"r1", "r2">>
RequestIds == {RequestIdOrder[i] : i \in DOMAIN RequestIdOrder}
None == "None"

\* --------------------------------------------------------- message model
TextContent(t) == [kind |-> "text", text |-> t]
FunctionCallContent == [kind |-> "function_call", text |-> << >>]

\* ChatMessage(role=..., text=...): one text content part
ChatMessage(role, text) == [role |-> role, contents |-> <<TextContent(text)>>]

RECURSIVE ConcatTexts(_)
\* the text of a sequence of content parts: the texts of its parts, in order
\* (a part without text contributes nothing)
ConcatTexts(contents) ==
    IF contents = << >> THEN << >>
    ELSE Head(contents).text \o ConcatTexts(Tail(contents))

RECURSIVE AllContents(_)
\* for message in messages: contents.extend(message.contents)
AllContents(messages) ==
    IF messages = << >> THEN << >>
    ELSE Head(messages).contents \o AllContents(Tail(messages))

\* the text a candidate (response.messages) carries
CandidateText(candidate) == ConcatTexts(AllContents(candidate))

SystemPreamble == ChatMessage("system", <<"You are a helpful customer support assistant">>)

ReviewerPreamble == ChatMessage("system", <<"You are a quality assurance reviewer">>)

ReviewInstruction == ChatMessage("user", <<"Please review the agent's response above">>)

FeedbackDirective(feedback) ==
    ChatMessage("system",
        <<"REVIEWER FEEDBACK: ">> \o feedback \o <<"Please improve your response based on this feedback.">>)

\* ------------------------------------------------- inputs of the environment
Prompts == { <<"p1">>, <<"p2">> }

\* what the Completion Provider can return to the generator (response.messages)
Candidates ==
    { << [role |-> "assistant", contents |-> <<TextContent(<<"a">>)>>] >>,
      << [role |-> "assistant", contents |-> <<FunctionCallContent>>],
         [role |-> "assistant", contents |-> <<TextContent(<<"b">>), TextContent(<<"c">>)>>] >> }

\* what the Completion Provider can return to the reviewer
\* (response.messages[-1].text): a JSON object, which may lack the feedback
\* field, or text that is not JSON
RawVerdicts ==
    { [json |-> TRUE,  approved |-> TRUE,  has_feedback |-> TRUE,  feedback |-> <<"ok">>],
      [json |-> TRUE,  approved |-> FALSE, has_feedback |-> TRUE,  feedback |-> <<"needs more detail">>],
      [json |-> TRUE,  approved |-> FALSE, has_feedback |-> FALSE, feedback |-> << >>],
      [json |-> FALSE, approved |-> FALSE, has_feedback |-> FALSE, feedback |-> << >>] }

\* a reply is a ReviewDecision when it is a JSON object with both fields
Malformed(raw) == ~raw.json \/ ~raw.has_feedback

\* a decoder that reads any reply it cannot decode as a rejection without
\* feedback
model_validate_json_Lenient(raw) ==
    IF raw.json /\ raw.has_feedback
    THEN [valid |-> TRUE, approved |-> raw.approved, feedback |-> raw.feedback]
    ELSE [valid |-> TRUE, approved |-> FALSE, feedback |-> << >>]

\* ReviewDecision.model_validate_json: approved: bool and feedback: str are
\* both required; text that is not such an object raises (valid = FALSE)
model_validate_json(raw) ==
    IF raw.json /\ raw.has_feedback
    THEN [valid |-> TRUE, approved |-> raw.approved, feedback |-> raw.feedback]
    ELSE [valid |-> FALSE, approved |-> FALSE, feedback |-> << >>]

\* the Azure OpenAI settings _setup_workflow needs
ConfigKeys == {"azure_openai_key", "azure_deployment", "azure_openai_endpoint", "api_version"}

\* the settings an agent can lack when it is constructed: none, or one of them
Configurations == {{}} \cup {{k} : k \in ConfigKeys}

\* a check that is content with any one setting
ConfigurationComplete_Any(missing) == missing # ConfigKeys

\* all([self.azure_openai_key, self.azure_deployment, self.azure_openai_endpoint, self.api_version])
ConfigurationComplete(missing) == \A k \in ConfigKeys : k \notin missing

\* ------------------------------------------------------------ Python dicts
\* s[-1]
Last(s) == s[Len(s)]


\* a dict is a function whose domain is its key set
EmptyDict == [k \in {} |-> None]
DictSet(d, key, value) == [k \in DOMAIN d \cup {key} |-> IF k = key THEN value ELSE d[k]]
\* d.pop(key, None)
DictPop(d, key) == [k \in DOMAIN d \ {key} |-> d[k]]

\* --------------------------------------------------- ConnectionManager
\* the WebSocket connections clients open to /ws/chat, and the one session
\* they register for
WebSockets == {"w1", "w2", "w3"}
SessionId == "s1"

\* the number of broadcast calls followed
MaxBroadcasts == 2

\* the n-th message handed to broadcast
BroadcastMessage(n) == [type |-> "info", seq |-> n]

\* no broadcast call has been made
NoBroadcast ==
    [status |-> "idle", seq |-> 0, message |-> BroadcastMessage(0),
     targets |-> {}, pending |-> {}, dead |-> {}, failed |-> {}]

\* ------------------------------------------------------------------ state
VARIABLES
    max_refinements,       \* PrimaryAgentExecutor._max_refinements
    ws_manager,            \* Agent._ws_manager is set
    pending_requests,      \* PrimaryAgentExecutor._pending_requests: id -> (request, messages)
    refinement_counts,     \* PrimaryAgentExecutor._refinement_counts: id -> int
    conversation_history,  \* Agent._conversation_history
    turn,                  \* the chat_async call of each request id
    inbox,                 \* messages sent over the workflow's edges, not yet handled
    gen,                   \* generator handlers suspended at await get_response
    rev,                   \* reviewer handlers suspended at an await
    events,                \* AgentRunUpdateEvents added to each run's event stream
    consumed,              \* how many of them the run_stream loop has handled
    frames,                \* frames broadcast to the session during each turn
    gen_calls,             \* get_response calls made by the generator, per id
    review_calls,          \* get_response calls made by the reviewer, per id
    candidates,            \* the candidates those generator calls returned, per id
    verdicts,              \* the approved flags the reviewer decoded, per id
    resolution,            \* how handle_review_feedback ended the turn, per id
    config_missing,        \* the Azure OpenAI settings of the agent that are not set
    initialized,           \* Agent._initialized (self._workflow is built)
    setup_raised,          \* a chat_async call has raised in _setup_workflow
    decisions,             \* the ReviewDecisions the reviewer has decoded, per id
    malformed,             \* the reviewer's last reply was not a ReviewDecision, per id
    sessions,              \* ConnectionManager.sessions: session id -> set of WebSockets
    sockets,               \* each WebSocket: not yet connected, open, or closed by its peer
    delivered,             \* the messages each WebSocket has received from send_json
    broadcasting,          \* the ConnectionManager.broadcast call in progress or last returned
    sent_reviews,          \* the ReviewResponses the reviewer has sent, per id
    DISABLE_AUTH,          \* backend.DISABLE_AUTH, read from the environment at import
    handlers,              \* each ws_chat coroutine: its position and its locals
    registered,            \* (session, socket) pairs connected and not since removed
    agents_created,        \* the Agent(...) constructions the service has made
    http_log,              \* the HTTP requests the service has answered, with their status
    JWKS_CACHE,            \* backend.JWKS_CACHE: tenant -> keys
    JWKS_CACHE_EXPIRATION, \* backend.JWKS_CACHE_EXPIRATION: tenant -> time
    now,                   \* time.time()
    fetches,               \* the last _fetch_jwks call, and each tenant's last successful request
    CURRENT_AGENT_MODULE,  \* backend.CURRENT_AGENT_MODULE
    AgentClass,            \* backend.Agent: the module the active Agent class came from
    STATE_STORE            \* backend.STATE_STORE: key -> value

\* the state of the service in backend.py around the agent
service_vars ==
    << DISABLE_AUTH, handlers, registered, agents_created, http_log, JWKS_CACHE,
       JWKS_CACHE_EXPIRATION, now, fetches, CURRENT_AGENT_MODULE, AgentClass,
       STATE_STORE >>

vars == << service_vars, max_refinements, ws_manager, pending_requests, refinement_counts,
           conversation_history, turn, inbox, gen, rev, events, consumed,
           frames, gen_calls, review_calls, candidates, verdicts, resolution,
           config_missing, initialized, setup_raised, decisions, malformed, sessions, sockets,
                    delivered, broadcasting,
           sent_reviews >>

\* PrimaryAgentRequest(request_id, user_prompt, conversation_history)
PrimaryAgentRequest(rid, prompt, history) ==
    [type |-> "PrimaryAgentRequest", request_id |-> rid, user_prompt |-> prompt,
     conversation_history |-> history]

\* a chat_async call: its prompt, its request and its response_text
UnusedTurn == [state |-> "unused", prompt |-> << >>,
               request |-> PrimaryAgentRequest(None, << >>, << >>),
               response_text |-> << >>, error |-> None]

Constructed ==
    /\ max_refinements \in 0..MaxRefinementsBound
    /\ ws_manager = FALSE
    /\ pending_requests = EmptyDict
    /\ refinement_counts = EmptyDict
    /\ conversation_history = << >>
    /\ turn = [r \in RequestIds |-> UnusedTurn]
    /\ inbox = {}
    /\ gen = EmptyDict
    /\ rev = EmptyDict
    /\ events = [r \in RequestIds |-> << >>]
    /\ consumed = [r \in RequestIds |-> 0]
    /\ frames = [r \in RequestIds |-> << >>]
    /\ gen_calls = [r \in RequestIds |-> 0]
    /\ review_calls = [r \in RequestIds |-> 0]
    /\ candidates = [r \in RequestIds |-> << >>]
    /\ verdicts = [r \in RequestIds |-> << >>]
    /\ resolution = [r \in RequestIds |-> None]
    /\ initialized = FALSE
    /\ setup_raised = FALSE
    /\ decisions = [r \in RequestIds |-> << >>]
    /\ malformed = [r \in RequestIds |-> FALSE]
    /\ sessions = EmptyDict
    /\ sockets = [ws \in WebSockets |-> "new"]
    /\ delivered = [ws \in WebSockets |-> << >>]
    /\ broadcasting = NoBroadcast
    /\ sent_reviews = [r \in RequestIds |-> << >>]

\* ------------------------------------------------- the service at start-up
\* the session ids clients name in their frames and requests
SessionIds == {"s1", "s2"}

\* a ws_chat coroutine that has not accepted its connection yet
IdleHandler ==
    [pc |-> "accept", connected_session |-> None, session_id |-> None,
     access_token |-> None, received |-> 0, sent |-> 0, message |-> None,
     pending |-> {}, dead |-> {}]

\* MANAGER = ConnectionManager(), and no request handled yet
ManagerStarted ==
    /\ handlers = [ws \in WebSockets |-> IdleHandler]
    /\ registered = {}
    /\ agents_created = {}
    /\ http_log = << >>

\* no call of _fetch_jwks has been made
NoCall ==
    [tenant |-> None, time |-> 0, network |-> FALSE, status |-> 0,
     data |-> [keys |-> {}]]

\* JWKS_CACHE = {}, JWKS_CACHE_EXPIRATION = {}
JwksCacheEmpty ==
    /\ JWKS_CACHE = EmptyDict
    /\ JWKS_CACHE_EXPIRATION = EmptyDict
    /\ now = 0
    /\ fetches = [last |-> NoCall, fetched |-> EmptyDict]

\* DEFAULT_AVAILABLE_AGENTS, by the last part of the module path
AVAILABLE_AGENTS ==
    <<"single_agent", "handoff_multi_domain_agent", "magentic_group",
      "reflection_agent", "reflection_workflow_agent">>

\* load_agent_class: the Agent attribute of the imported module
load_agent_class(module_path) == [name |-> "Agent", module |-> module_path]

\* CURRENT_AGENT_MODULE = AVAILABLE_AGENTS[0]; Agent = load_agent_class(...)
AgentsLoaded ==
    /\ CURRENT_AGENT_MODULE = AVAILABLE_AGENTS[1]
    /\ AgentClass = load_agent_class(CURRENT_AGENT_MODULE)

\* the service right after import, before any request
ServiceStarted ==
    /\ ManagerStarted
    /\ JwksCacheEmpty
    /\ AgentsLoaded
    /\ STATE_STORE = EmptyDict

\* an agent constructed with every Azure OpenAI setting present, on its own:
\* the service around it stays as it started
Init == Constructed /\ config_missing = {} /\ ServiceStarted /\ DISABLE_AUTH = TRUE

\* an agent constructed with whatever settings its environment has
InitSetup ==
    Constructed /\ config_missing \in Configurations /\ ServiceStarted
        /\ DISABLE_AUTH = TRUE

\* ---------------------------------------------------------------- frames
Frame(type, kind, content) == [type |-> type, kind |-> kind, content |-> content]

PlanFrame == Frame("orchestrator", "plan", << >>)
ResultFrame == Frame("orchestrator", "result", << >>)
DoneFrame == Frame("done", None, << >>)
ErrorFrame == Frame("error", None, << >>)

RECURSIVE TokenFrames(_)
\* one agent_token frame per content part that has a non-empty text
TokenFrames(contents) ==
    IF contents = << >> THEN << >>
    ELSE (IF Head(contents).text # << >>
          THEN <<Frame("agent_token", None, Head(contents).text)>>
          ELSE << >>) \o TokenFrames(Tail(contents))

\* --------------------------------------------------------------- chat_async
TurnRunning(rid) == turn[rid].state = "running"

\* str(uuid4()): an id no earlier turn has used
FreshRequestId(rid) ==
    \E i \in DOMAIN RequestIdOrder :
        /\ rid = RequestIdOrder[i]
        /\ turn[rid].state = "unused"
        /\ \A j \in 1..(i - 1) : turn[RequestIdOrder[j]].state # "unused"

\* set_websocket_manager: ws_chat injects the manager right after it has
\* constructed the agent, before the agent's first turn
SetWebsocketManager ==
    /\ ~ws_manager
    /\ \A r \in RequestIds : turn[r].state = "unused"
    /\ ws_manager' = TRUE
    /\ UNCHANGED << service_vars, config_missing, initialized, setup_raised, decisions, malformed, sessions, sockets,
                    delivered, broadcasting, sent_reviews,
                    max_refinements, pending_requests, refinement_counts,
                    conversation_history, turn, inbox, gen, rev, events,
                    consumed, frames, gen_calls, review_calls, candidates,
                    verdicts, resolution >>

\* _setup_workflow returns at once when the workflow is built, and builds it
\* only from a complete configuration
SetupSucceeds == initialized \/ ConfigurationComplete(config_missing)

\* chat_async whose _setup_workflow raises RuntimeError: the call ends before
\* uuid4(), so no request id is used and nothing else of the agent changes
SetupRaises ==
    /\ ~SetupSucceeds
    /\ setup_raised' = TRUE
    /\ UNCHANGED << service_vars, config_missing, initialized, decisions, malformed, sessions, sockets,
                    delivered, broadcasting, sent_reviews,
                    max_refinements, ws_manager, pending_requests, refinement_counts,
                    conversation_history, turn, inbox, gen, rev, events,
                    consumed, frames, gen_calls, review_calls, candidates,
                    verdicts, resolution >>

\* the owner of the agent supplies the settings that were missing
ProvideConfiguration ==
    /\ config_missing # {}
    /\ config_missing' = {}
    /\ UNCHANGED << service_vars, initialized, setup_raised, decisions, malformed, sessions, sockets,
                    delivered, broadcasting, sent_reviews,
                    max_refinements, ws_manager, pending_requests, refinement_counts,
                    conversation_history, turn, inbox, gen, rev, events,
                    consumed, frames, gen_calls, review_calls, candidates,
                    verdicts, resolution >>

\* chat_async up to the start of the workflow run: the workflow is set up, the
\* request carries a copy of the history; in streaming mode the plan frame is
\* broadcast first
StartTurn(rid, prompt) ==
    /\ SetupSucceeds
    /\ initialized' = TRUE
    /\ FreshRequestId(rid)
    /\ LET request == PrimaryAgentRequest(rid, prompt, conversation_history) IN
        /\ turn' = [turn EXCEPT ![rid] = [state |-> "running", prompt |-> prompt,
                                          request |-> request,
                                          response_text |-> << >>,
                                          error |-> None]]
        /\ inbox' = inbox \cup {request}
    /\ frames' = [frames EXCEPT ![rid] = IF ws_manager THEN <<PlanFrame>> ELSE << >>]
    /\ UNCHANGED << service_vars, config_missing, setup_raised, decisions, malformed, sessions, sockets,
                    delivered, broadcasting, sent_reviews,
                    max_refinements, ws_manager, pending_requests, refinement_counts,
                    conversation_history, gen, rev, events, consumed,
                    gen_calls, review_calls, candidates, verdicts, resolution >>

\* a caller that awaits each chat_async before it makes the next call
ChatAsync(rid, prompt) ==
    /\ \A r \in RequestIds : ~TurnRunning(r)
    /\ StartTurn(rid, prompt)

\* an exception leaves the workflow run and chat_async: the turn has raised,
\* and ws_chat broadcasts an error frame when it called chat_async
RaisedTurn(rid, error) ==
    [turn EXCEPT ![rid].state = "raised", ![rid].error = error]

\* a chat_async that records the user's prompt before it runs the workflow
RaisedHistory_PartialCommit(rid) ==
    Append(conversation_history, ChatMessage("user", turn[rid].prompt))

\* the appends at the end of chat_async are not reached: the history stays
RaisedHistory(rid) == conversation_history

\* a ws_chat that swallows the exception of chat_async
RaisedFrames_Silent(rid) == frames

RaisedFrames(rid) ==
    [frames EXCEPT ![rid] = IF ws_manager THEN Append(@, ErrorFrame) ELSE @]

Raise(rid, error) ==
    /\ turn' = RaisedTurn(rid, error)
    /\ frames' = RaisedFrames(rid)
    /\ conversation_history' = RaisedHistory(rid)


\* a workflow that keeps a message on its edge after it has run the handler
Delivered_Again(message) == inbox

\* the workflow hands a message to its handler once: it leaves the edge
Delivered(message) == inbox \ {message}

\* ------------------------------------------------- PrimaryAgentExecutor
\* handle_user_request: system prompt, history, and the new user message
UserRequestMessages(request) ==
    <<SystemPreamble>> \o request.conversation_history
        \o <<ChatMessage("user", request.user_prompt)>>

\* a generator that regenerates from the feedback alone, without the stored
\* messages
RetryMessages_FeedbackOnly(messages, review, original_request) ==
    <<SystemPreamble, FeedbackDirective(review.feedback),
      ChatMessage("user", original_request.user_prompt)>>

\* handle_review_feedback: the stored messages, the reviewer's feedback, and
\* the original user prompt again
RetryMessages(messages, review, original_request) ==
    messages \o <<FeedbackDirective(review.feedback)>>
             \o <<ChatMessage("user", original_request.user_prompt)>>

\* a generator that sends the candidate for review without the history
ReviewRequestOf_NoHistory(request, response_messages) ==
    [type |-> "ReviewRequest", request_id |-> request.request_id,
     user_prompt |-> request.user_prompt,
     conversation_history |-> << >>,
     primary_agent_response |-> response_messages]

\* a generator that sends the candidate for review without the user's prompt
ReviewRequestOf_NoPrompt(request, response_messages) ==
    [type |-> "ReviewRequest", request_id |-> request.request_id,
     user_prompt |-> << >>,
     conversation_history |-> request.conversation_history,
     primary_agent_response |-> response_messages]

ReviewRequestOf(request, response_messages) ==
    [type |-> "ReviewRequest", request_id |-> request.request_id,
     user_prompt |-> request.user_prompt,
     conversation_history |-> request.conversation_history,
     primary_agent_response |-> response_messages]

\* a turn makes at most max_refinements + 1 generation calls; the log of calls
\* is kept finite by this cap, which a generator that honours its budget
\* never meets
MaxGenerationCalls == MaxRefinementsBound + 2

\* a generator that never gives up refining
MaxRefinementsReached_Never(current_count) == FALSE

\* a budget check that is off by one: one refinement too many
MaxRefinementsReached_OffByOne(current_count) == current_count > max_refinements

\* if current_count >= self._max_refinements
MaxRefinementsReached(current_count) == current_count >= max_refinements

\* a generator that keeps one counter for all the requests it is refining
CurrentCount_Shared(rid) ==
    IF DOMAIN refinement_counts = {} THEN 0
    ELSE CHOOSE n \in {refinement_counts[k] : k \in DOMAIN refinement_counts} :
             \A k \in DOMAIN refinement_counts : refinement_counts[k] <= n

\* self._refinement_counts.get(review.request_id, 0)
CurrentCount(rid) ==
    IF rid \in DOMAIN refinement_counts THEN refinement_counts[rid] ELSE 0

\* a generator that does not count the rejection
CountAfterRejection_Unchanged(current_count) == current_count

\* self._refinement_counts[review.request_id] = current_count + 1
CountAfterRejection(current_count) == current_count + 1

\* handle_user_request up to await self._chat_client.get_response
HandleUserRequest(rid) ==
    \E request \in inbox :
        /\ request.type = "PrimaryAgentRequest"
        /\ request.request_id = rid
        /\ TurnRunning(rid)
        /\ inbox' = Delivered(request)
        /\ gen' = DictSet(gen, rid, [kind |-> "first", request |-> request,
                                     messages |-> UserRequestMessages(request)])
        /\ gen_calls' = [gen_calls EXCEPT ![rid] = @ + 1]
        /\ UNCHANGED << service_vars, config_missing, initialized, setup_raised, decisions, malformed, sessions, sockets,
                    delivered, broadcasting, sent_reviews,
                    max_refinements, ws_manager, pending_requests, refinement_counts,
                        conversation_history, turn, rev, events, consumed,
                        frames, review_calls, candidates, verdicts, resolution >>

\* the generator's get_response returns response.messages: the handler stores
\* the context with the candidate, initializes the counter on a first
\* generation, and sends the candidate to the reviewer
GenerationReturns(rid, response_messages) ==
    /\ rid \in DOMAIN gen
    /\ TurnRunning(rid)
    /\ LET g == gen[rid] IN
        /\ pending_requests' = DictSet(pending_requests, rid,
               [request |-> g.request, messages |-> g.messages \o response_messages])
        /\ refinement_counts' =
               IF g.kind = "first" /\ rid \notin DOMAIN refinement_counts
               THEN DictSet(refinement_counts, rid, 0)
               ELSE refinement_counts
        /\ inbox' = inbox \cup {ReviewRequestOf(g.request, response_messages)}
    /\ gen' = DictPop(gen, rid)
    /\ candidates' = [candidates EXCEPT ![rid] = Append(@, response_messages)]
    /\ UNCHANGED << service_vars, config_missing, initialized, setup_raised, decisions, malformed, sessions, sockets,
                    delivered, broadcasting, sent_reviews,
                    max_refinements, ws_manager, conversation_history, turn, rev, events,
                    consumed, frames, gen_calls, review_calls, verdicts,
                    resolution >>

\* the generator's get_response raises: the handler stores nothing
GenerationRaises(rid) ==
    /\ rid \in DOMAIN gen
    /\ TurnRunning(rid)
    /\ gen' = DictPop(gen, rid)
    /\ Raise(rid, "ProviderError")
    /\ UNCHANGED << service_vars, config_missing, initialized, setup_raised, decisions, malformed, sessions, sockets,
                    delivered, broadcasting, sent_reviews,
                    max_refinements, ws_manager, pending_requests,
                    refinement_counts, inbox, rev, events, consumed,
                    gen_calls, review_calls, candidates, verdicts, resolution >>

\* handle_review_feedback up to its return or its await get_response
\* a generator that treats every review as a rejection
ReviewApproved_Never(review) == FALSE

\* if review.approved:
ReviewApproved(review) == review.approved

\* a generator that leaves the counter in place when the turn is resolved
CountsAfterResolution_Kept(rid) == refinement_counts

\* self._refinement_counts.pop(review.request_id, None)
CountsAfterResolution(rid) == DictPop(refinement_counts, rid)

\* a generator that logs the unknown id and returns
RaiseUnknownRequestId_Swallowed(rid) ==
    UNCHANGED << turn, frames, conversation_history >>

\* raise ValueError("Unknown request ID in review")
RaiseUnknownRequestId(rid) == Raise(rid, "ValueError")

HandleReviewFeedback(rid) ==
    \E review \in inbox :
        /\ review.type = "ReviewResponse"
        /\ review.request_id = rid
        /\ TurnRunning(rid)
        /\ inbox' = Delivered(review)
        /\ IF rid \notin DOMAIN pending_requests
           THEN /\ RaiseUnknownRequestId(rid)
                /\ UNCHANGED << pending_requests, refinement_counts, gen,
                                gen_calls, resolution >>
           ELSE LET original_request == pending_requests[rid].request
                    messages == pending_requests[rid].messages
                    current_count == CurrentCount(rid)
                IN  /\ pending_requests' = DictPop(pending_requests, rid)
                    /\ UNCHANGED << turn, frames, conversation_history >>
                    /\ IF ReviewApproved(review)
                       THEN /\ refinement_counts' = CountsAfterResolution(rid)
                            /\ resolution' = [resolution EXCEPT ![rid] = "approved"]
                            /\ UNCHANGED << gen, gen_calls >>
                       ELSE IF MaxRefinementsReached(current_count)
                       THEN /\ refinement_counts' = CountsAfterResolution(rid)
                            /\ resolution' = [resolution EXCEPT ![rid] = "forced"]
                            /\ UNCHANGED << gen, gen_calls >>
                       ELSE /\ gen_calls[rid] < MaxGenerationCalls
                            /\ refinement_counts' =
                                   DictSet(refinement_counts, rid,
                                           CountAfterRejection(current_count))
                            /\ gen' = DictSet(gen, rid,
                                   [kind |-> "retry", request |-> original_request,
                                    messages |-> RetryMessages(messages, review,
                                                               original_request)])
                            /\ gen_calls' = [gen_calls EXCEPT ![rid] = @ + 1]
                            /\ UNCHANGED resolution
        /\ UNCHANGED << service_vars, config_missing, initialized, setup_raised, decisions, malformed, sessions, sockets,
                    delivered, broadcasting, sent_reviews,
                    max_refinements, ws_manager, rev, events, consumed,
                        review_calls, candidates, verdicts >>

\* ------------------------------------------------- ReviewerAgentExecutor
\* review_response: the rubric, the history, the user's question, the agent's
\* response, and the review instruction
ReviewMessages(request) ==
    <<ReviewerPreamble>> \o request.conversation_history
        \o <<ChatMessage("user", request.user_prompt)>>
        \o request.primary_agent_response
        \o <<ReviewInstruction>>

\* AgentRunUpdateEvent(self.id, data=AgentRunResponseUpdate(contents, ASSISTANT))
ApprovedEvent(request) ==
    [executor_id |-> "reviewer_agent", role |-> "assistant",
     contents |-> AllContents(request.primary_agent_response)]

\* a reviewer that emits whatever it has judged, approved or not
EventsAfterDecision_Always(stream, request, decision) ==
    Append(stream, ApprovedEvent(request))

\* a reviewer that acknowledges an approval without emitting the payload
EventsAfterDecision_Never(stream, request, decision) == stream

\* if decision.approved: await ctx.add_event(...)
EventsAfterDecision(stream, request, decision) ==
    IF decision.approved THEN Append(stream, ApprovedEvent(request)) ELSE stream

\* decision is unbound until get_response has returned
NoDecision == [valid |-> FALSE, approved |-> FALSE, feedback |-> << >>]

\* review_response up to await self._chat_client.get_response
ReviewResponseStart(rid) ==
    \E request \in inbox :
        /\ request.type = "ReviewRequest"
        /\ request.request_id = rid
        /\ TurnRunning(rid)
        /\ inbox' = Delivered(request)
        /\ rev' = DictSet(rev, rid, [stage |-> "get_response", request |-> request,
                                     messages |-> ReviewMessages(request),
                                     decision |-> NoDecision])
        /\ review_calls' = [review_calls EXCEPT ![rid] = @ + 1]
        /\ UNCHANGED << service_vars, config_missing, initialized, setup_raised, decisions, malformed, sessions, sockets,
                    delivered, broadcasting, sent_reviews,
                    max_refinements, ws_manager, pending_requests, refinement_counts,
                        conversation_history, turn, gen, events, consumed,
                        frames, gen_calls, candidates, verdicts, resolution >>

\* the reviewer's get_response returns text `raw`: the decision is decoded, and
\* an approved candidate's contents are added to the event stream
ReviewReturns(rid, raw) ==
    /\ rid \in DOMAIN rev
    /\ rev[rid].stage = "get_response"
    /\ TurnRunning(rid)
    /\ LET decision == model_validate_json(raw) IN
        IF ~decision.valid
        THEN \* pydantic ValidationError
             /\ rev' = DictPop(rev, rid)
             /\ Raise(rid, "ValidationError")
             /\ UNCHANGED << events, verdicts, decisions >>
        ELSE /\ rev' = DictSet(rev, rid, [rev[rid] EXCEPT !.stage = "send_message",
                                                         !.decision = decision])
             /\ events' = [events EXCEPT ![rid] =
                               EventsAfterDecision(@, rev[rid].request, decision)]
             /\ verdicts' = [verdicts EXCEPT ![rid] = Append(@, decision.approved)]
             /\ decisions' = [decisions EXCEPT ![rid] = Append(@, decision)]
             /\ UNCHANGED << turn, frames, conversation_history >>
    /\ malformed' = [malformed EXCEPT ![rid] = Malformed(raw)]
    /\ UNCHANGED << service_vars, config_missing, initialized, setup_raised, sent_reviews,
                    sessions, sockets, delivered, broadcasting,
                    max_refinements, ws_manager, pending_requests,
                    refinement_counts, inbox, gen, consumed, gen_calls,
                    review_calls, candidates, resolution >>

\* the reviewer's get_response raises
ReviewRaises(rid) ==
    /\ rid \in DOMAIN rev
    /\ rev[rid].stage = "get_response"
    /\ TurnRunning(rid)
    /\ rev' = DictPop(rev, rid)
    /\ Raise(rid, "ProviderError")
    /\ UNCHANGED << service_vars, config_missing, initialized, setup_raised, decisions, malformed, sessions, sockets,
                    delivered, broadcasting, sent_reviews,
                    max_refinements, ws_manager, pending_requests,
                    refinement_counts, inbox, gen, events, consumed,
                    gen_calls, review_calls, candidates, verdicts, resolution >>

\* a reviewer that sends its verdict without the feedback text
ReviewResponseOf_NoFeedback(request, decision) ==
    [type |-> "ReviewResponse", request_id |-> request.request_id,
     approved |-> decision.approved, feedback |-> << >>]

ReviewResponseOf(request, decision) ==
    [type |-> "ReviewResponse", request_id |-> request.request_id,
     approved |-> decision.approved, feedback |-> decision.feedback]

\* await ctx.send_message(ReviewResponse(...)): always, approved or not
ReviewSends(rid) ==
    /\ rid \in DOMAIN rev
    /\ rev[rid].stage = "send_message"
    /\ TurnRunning(rid)
    /\ inbox' = inbox \cup {ReviewResponseOf(rev[rid].request, rev[rid].decision)}
    /\ rev' = DictPop(rev, rid)
    /\ sent_reviews' = [sent_reviews EXCEPT ![rid] =
                            Append(@, ReviewResponseOf(rev[rid].request, rev[rid].decision))]
    /\ UNCHANGED << service_vars, config_missing, initialized, setup_raised, decisions, malformed, sessions, sockets,
                    delivered, broadcasting,
                    max_refinements, ws_manager, pending_requests, refinement_counts,
                    conversation_history, turn, gen, events, consumed, frames,
                    gen_calls, review_calls, candidates, verdicts, resolution >>


\* ------------------------------------------------- Agent: running a turn
\* the workflow run ends when no message is in flight and no handler runs
WorkflowIdle(rid) ==
    /\ \A m \in inbox : m.request_id # rid
    /\ rid \notin DOMAIN gen
    /\ rid \notin DOMAIN rev

\* a commit that records the assistant's reply before the user's prompt
HistoryAfterTurn_Swapped(history, prompt, response_text) ==
    history \o <<ChatMessage("assistant", response_text), ChatMessage("user", prompt)>>

\* self._conversation_history.append(user); .append(assistant)
HistoryAfterTurn(history, prompt, response_text) ==
    history \o <<ChatMessage("user", prompt), ChatMessage("assistant", response_text)>>

\* a loop that reads only the first content part of an event
ResponseTextAfter_FirstPart(response_text, event) ==
    response_text \o Head(event.contents).text

\* a loop that overwrites response_text with each content part
ResponseTextAfter_LastPart(response_text, event) ==
    Last(event.contents).text

\* for content in event.data.contents: if content.text: response_text += content.text
ResponseTextAfter(response_text, event) ==
    response_text \o ConcatTexts(event.contents)

\* _run_workflow_streaming, one iteration of `async for event`: an
\* AgentRunUpdateEvent adds the text of each content part to response_text
\* and broadcasts an agent_token frame for it
StreamEvent(rid) ==
    /\ TurnRunning(rid)
    /\ ws_manager
    /\ consumed[rid] < Len(events[rid])
    /\ LET event == events[rid][consumed[rid] + 1] IN
        /\ turn' = [turn EXCEPT ![rid].response_text = ResponseTextAfter(@, event)]
        /\ frames' = [frames EXCEPT ![rid] = @ \o TokenFrames(event.contents)]
    /\ consumed' = [consumed EXCEPT ![rid] = @ + 1]
    /\ UNCHANGED << service_vars, config_missing, initialized, setup_raised, decisions, malformed, sessions, sockets,
                    delivered, broadcasting, sent_reviews,
                    max_refinements, ws_manager, pending_requests, refinement_counts,
                    conversation_history, inbox, gen, rev, events, gen_calls,
                    review_calls, candidates, verdicts, resolution >>

\* a service that ends a streaming turn without the done frame
FinalFrames_NoDone(response_text) ==
    IF response_text # << >>
    THEN <<Frame("final_result", None, response_text), ResultFrame>>
    ELSE << >>

\* the frames that end a streaming turn: final_result and the orchestrator
\* result when there is a response text, then ws_chat's done
FinalFrames(response_text) ==
    (IF response_text # << >>
     THEN <<Frame("final_result", None, response_text), ResultFrame>>
     ELSE << >>) \o <<DoneFrame>>

\* _run_workflow_streaming after its loop, and the rest of chat_async
StreamingTurnReturns(rid) ==
    /\ TurnRunning(rid)
    /\ ws_manager
    /\ WorkflowIdle(rid)
    /\ consumed[rid] = Len(events[rid])
    /\ frames' = [frames EXCEPT ![rid] = @ \o FinalFrames(turn[rid].response_text)]
    /\ conversation_history' =
           HistoryAfterTurn(conversation_history, turn[rid].prompt,
                            turn[rid].response_text)
    /\ turn' = [turn EXCEPT ![rid].state = "returned"]
    /\ UNCHANGED << service_vars, config_missing, initialized, setup_raised, decisions, malformed, sessions, sockets,
                    delivered, broadcasting, sent_reviews,
                    max_refinements, ws_manager, pending_requests, refinement_counts,
                    inbox, gen, rev, events, consumed, gen_calls, review_calls,
                    candidates, verdicts, resolution >>

\* _run_workflow: response.output if the run result has one, else
\* str(response); which, and what it holds, is up to the workflow library
RunOutputs(rid) ==
    { <<"str(response)">> } \cup
    { ConcatTexts(events[rid][i].contents) : i \in 1..Len(events[rid]) }

\* _run_workflow and the rest of chat_async
BlockingTurnReturns(rid, response_text) ==
    /\ TurnRunning(rid)
    /\ ~ws_manager
    /\ WorkflowIdle(rid)
    /\ response_text \in RunOutputs(rid)
    /\ conversation_history' =
           HistoryAfterTurn(conversation_history, turn[rid].prompt, response_text)
    /\ turn' = [turn EXCEPT ![rid].state = "returned",
                            ![rid].response_text = response_text]
    /\ UNCHANGED << service_vars, config_missing, initialized, setup_raised, decisions, malformed, sessions, sockets,
                    delivered, broadcasting, sent_reviews,
                    max_refinements, ws_manager, pending_requests, refinement_counts,
                    inbox, gen, rev, events, consumed, frames, gen_calls,
                    review_calls, candidates, verdicts, resolution >>

\* ------------------------------------------------------------ specification
Next ==
    \/ SetWebsocketManager
    \/ \E rid \in RequestIds, prompt \in Prompts : ChatAsync(rid, prompt)
    \/ \E rid \in RequestIds : HandleUserRequest(rid)
    \/ \E rid \in RequestIds, c \in Candidates : GenerationReturns(rid, c)
    \/ \E rid \in RequestIds : GenerationRaises(rid)
    \/ \E rid \in RequestIds : HandleReviewFeedback(rid)
    \/ \E rid \in RequestIds : ReviewResponseStart(rid)
    \/ \E rid \in RequestIds, raw \in RawVerdicts : ReviewReturns(rid, raw)
    \/ \E rid \in RequestIds : ReviewRaises(rid)
    \/ \E rid \in RequestIds : ReviewSends(rid)
    \/ \E rid \in RequestIds : StreamEvent(rid)
    \/ \E rid \in RequestIds : StreamingTurnReturns(rid)
    \/ \E rid \in RequestIds :
           \E t \in RunOutputs(rid) : BlockingTurnReturns(rid, t)

Spec == Init /\ [][Next]_vars

\* the two actors are scheduled fairly: a message on an edge is eventually
\* handled and a decoded verdict is eventually sent; and every Completion
\* Provider call eventually returns or raises
Fairness ==
    \A rid \in RequestIds :
        /\ WF_vars(HandleUserRequest(rid))
        /\ WF_vars(HandleReviewFeedback(rid))
        /\ WF_vars(ReviewResponseStart(rid))
        /\ WF_vars(ReviewSends(rid))
        /\ WF_vars((\E c \in Candidates : GenerationReturns(rid, c))
                      \/ GenerationRaises(rid))
        /\ WF_vars((\E raw \in RawVerdicts : ReviewReturns(rid, raw))
                      \/ ReviewRaises(rid))

\* no guard of the program reads the text of a prompt: the turns of the fair
\* specification all ask the same question
FairPrompts == {<<"p1">>}

NextFair ==
    \/ SetWebsocketManager
    \/ \E rid \in RequestIds, prompt \in FairPrompts : ChatAsync(rid, prompt)
    \/ \E rid \in RequestIds : HandleUserRequest(rid)
    \/ \E rid \in RequestIds, c \in Candidates : GenerationReturns(rid, c)
    \/ \E rid \in RequestIds : GenerationRaises(rid)
    \/ \E rid \in RequestIds : HandleReviewFeedback(rid)
    \/ \E rid \in RequestIds : ReviewResponseStart(rid)
    \/ \E rid \in RequestIds, raw \in RawVerdicts : ReviewReturns(rid, raw)
    \/ \E rid \in RequestIds : ReviewRaises(rid)
    \/ \E rid \in RequestIds : ReviewSends(rid)
    \/ \E rid \in RequestIds : StreamEvent(rid)
    \/ \E rid \in RequestIds : StreamingTurnReturns(rid)
    \/ \E rid \in RequestIds :
           \E t \in RunOutputs(rid) : BlockingTurnReturns(rid, t)

SpecFair == Init /\ [][NextFair]_vars /\ Fairness

\* the callers that run together ask different questions: the first call asks
\* the first prompt, a later call the second
ConcurrentPrompts(rid) ==
    IF rid = RequestIdOrder[1] THEN {<<"p1">>} ELSE {<<"p2">>}

\* two chat_async calls in flight together: the second turn starts while the
\* handlers of the first are still running, on the same two executors
NextConcurrent ==
    \/ SetWebsocketManager
    \/ \E rid \in RequestIds :
           \E prompt \in ConcurrentPrompts(rid) : StartTurn(rid, prompt)
    \/ \E rid \in RequestIds : HandleUserRequest(rid)
    \/ \E rid \in RequestIds, c \in Candidates : GenerationReturns(rid, c)
    \/ \E rid \in RequestIds : GenerationRaises(rid)
    \/ \E rid \in RequestIds : HandleReviewFeedback(rid)
    \/ \E rid \in RequestIds : ReviewResponseStart(rid)
    \/ \E rid \in RequestIds, raw \in RawVerdicts : ReviewReturns(rid, raw)
    \/ \E rid \in RequestIds : ReviewRaises(rid)
    \/ \E rid \in RequestIds : ReviewSends(rid)
    \/ \E rid \in RequestIds : StreamEvent(rid)
    \/ \E rid \in RequestIds : StreamingTurnReturns(rid)
    \/ \E rid \in RequestIds :
           \E t \in RunOutputs(rid) : BlockingTurnReturns(rid, t)

SpecConcurrent == Init /\ [][NextConcurrent]_vars

\* the workflow delivers the reviewer's last ReviewResponse of rid a second
\* time, after the generator has resolved the turn and dropped its pending entry
DuplicateReviewResponse(rid) ==
    /\ TurnRunning(rid)
    /\ resolution[rid] # None
    /\ rid \notin DOMAIN pending_requests
    /\ ~\E m \in inbox : m.type = "ReviewResponse" /\ m.request_id = rid
    /\ inbox' = inbox \cup {Last(sent_reviews[rid])}
    /\ UNCHANGED << service_vars, config_missing, initialized, setup_raised, decisions, malformed, sessions, sockets,
                    delivered, broadcasting, sent_reviews,
                    max_refinements, ws_manager, pending_requests, refinement_counts,
                    conversation_history, turn, gen, rev, events, consumed, frames,
                    gen_calls, review_calls, candidates, verdicts, resolution >>

NextStray ==
    \/ Next
    \/ \E rid \in RequestIds : DuplicateReviewResponse(rid)

SpecStray == Init /\ [][NextStray]_vars

\* the agent of an environment that may lack a setting: chat_async can fail in
\* _setup_workflow until the setting is supplied
NextSetup == Next \/ SetupRaises \/ ProvideConfiguration

SpecSetup == InitSetup /\ [][NextSetup]_vars

\* ---------------------------------------- ConnectionManager (backend.py)
\* the state of the agent, which the connection manager does not touch
agent_vars ==
    << max_refinements, ws_manager, pending_requests, refinement_counts,
       conversation_history, turn, inbox, gen, rev, events, consumed, frames,
       gen_calls, review_calls, candidates, verdicts, resolution,
       config_missing, initialized, setup_raised, decisions, malformed,
       sent_reviews >>

\* self.sessions.get(session_id, [])
Subscribers ==
    IF SessionId \in DOMAIN sessions THEN sessions[SessionId] ELSE {}

\* disconnect: discard the socket, and drop the session when it has none left
AfterDisconnect(d, ws) ==
    IF SessionId \notin DOMAIN d THEN d
    ELSE IF d[SessionId] \ {ws} = {} THEN DictPop(d, SessionId)
    ELSE DictSet(d, SessionId, d[SessionId] \ {ws})

RECURSIVE AfterDisconnectAll(_, _)
\* for ws in dead: self.disconnect(session_id, ws)
AfterDisconnectAll(d, dead) ==
    IF dead = {} THEN d
    ELSE LET ws == CHOOSE w \in dead : TRUE
         IN  AfterDisconnectAll(AfterDisconnect(d, ws), dead \ {ws})

\* ws_chat registers the socket of a client for the session
Connect(ws) ==
    /\ sockets[ws] = "new"
    /\ sockets' = [sockets EXCEPT ![ws] = "open"]
    /\ sessions' = DictSet(sessions, SessionId, Subscribers \cup {ws})
    /\ UNCHANGED << delivered, broadcasting, agent_vars, service_vars >>

\* a client goes away: from now on send_json on its socket raises
SocketCloses(ws) ==
    /\ sockets[ws] = "open"
    /\ sockets' = [sockets EXCEPT ![ws] = "closed"]
    /\ UNCHANGED << sessions, delivered, broadcasting, agent_vars, service_vars >>

\* ws_chat of a closed socket leaves its loop: finally MANAGER.disconnect
Disconnect(ws) ==
    /\ sockets[ws] = "closed"
    /\ ws \in Subscribers
    /\ sessions' = AfterDisconnect(sessions, ws)
    /\ UNCHANGED << sockets, delivered, broadcasting, agent_vars, service_vars >>

\* broadcast up to its loop: dead = [], and the list() copy of the subscribers
BroadcastStart ==
    /\ broadcasting.status # "sending"
    /\ broadcasting.seq < MaxBroadcasts
    /\ broadcasting' =
           [status |-> "sending", seq |-> broadcasting.seq + 1,
            message |-> BroadcastMessage(broadcasting.seq + 1),
            targets |-> Subscribers, pending |-> Subscribers,
            dead |-> {}, failed |-> {}]
    /\ UNCHANGED << sessions, sockets, delivered, agent_vars, service_vars >>

\* a broadcast that lets the exception of send_json escape
AfterSendFailed_Raises(b, ws) ==
    [b EXCEPT !.status = "raised", !.pending = {}, !.failed = @ \cup {ws}]

\* except Exception: dead.append(ws)
AfterSendFailed(b, ws) ==
    [b EXCEPT !.dead = @ \cup {ws}, !.pending = @ \ {ws}, !.failed = @ \cup {ws}]

\* one iteration of the loop: await ws.send_json(message), which raises on a
\* closed socket
BroadcastSend(ws) ==
    /\ broadcasting.status = "sending"
    /\ ws \in broadcasting.pending
    /\ IF sockets[ws] = "open"
       THEN /\ delivered' = [delivered EXCEPT ![ws] = Append(@, broadcasting.message)]
            /\ broadcasting' = [broadcasting EXCEPT !.pending = @ \ {ws}]
       ELSE /\ broadcasting' = AfterSendFailed(broadcasting, ws)
            /\ UNCHANGED delivered
    /\ UNCHANGED << sessions, sockets, agent_vars, service_vars >>

\* after the loop: the dead sockets are disconnected and broadcast returns
BroadcastReturns ==
    /\ broadcasting.status = "sending"
    /\ broadcasting.pending = {}
    /\ sessions' = AfterDisconnectAll(sessions, broadcasting.dead)
    /\ broadcasting' = [broadcasting EXCEPT !.status = "returned"]
    /\ UNCHANGED << sockets, delivered, agent_vars, service_vars >>

NextBroadcast ==
    \/ \E ws \in WebSockets : Connect(ws)
    \/ \E ws \in WebSockets : SocketCloses(ws)
    \/ \E ws \in WebSockets : Disconnect(ws)
    \/ BroadcastStart
    \/ \E ws \in WebSockets : BroadcastSend(ws)
    \/ BroadcastReturns

SpecBroadcast == Init /\ [][NextBroadcast]_vars

\* ------------------------------------- ConnectionManager, any session id
\* everything but the ConnectionManager
outside_manager ==
    << DISABLE_AUTH, handlers, agents_created, http_log, JWKS_CACHE,
       JWKS_CACHE_EXPIRATION, now, fetches, CURRENT_AGENT_MODULE, AgentClass,
       STATE_STORE, sockets, delivered, agent_vars >>

\* self.sessions.get(session_id, [])
subscribers(d, session_id) ==
    IF session_id \in DOMAIN d THEN d[session_id] ELSE {}

\* connect: self.sessions[session_id].add(ws), on a defaultdict(set)
connect(d, session_id, ws) ==
    DictSet(d, session_id, subscribers(d, session_id) \cup {ws})

\* a manager that keeps the key of a session whose last socket has left
disconnect_KeepsKey(d, session_id, ws) ==
    IF session_id \notin DOMAIN d THEN d
    ELSE DictSet(d, session_id, d[session_id] \ {ws})

\* disconnect: discard the socket; pop the session when its set is empty
disconnect(d, session_id, ws) ==
    IF session_id \notin DOMAIN d THEN d
    ELSE IF d[session_id] \ {ws} = {} THEN DictPop(d, session_id)
    ELSE DictSet(d, session_id, d[session_id] \ {ws})

RECURSIVE disconnect_dead(_, _, _)
\* for ws in dead: self.disconnect(session_id, ws)
disconnect_dead(d, session_id, dead) ==
    IF dead = {} THEN d
    ELSE LET ws == CHOOSE w \in dead : TRUE
         IN  disconnect_dead(disconnect(d, session_id, ws), session_id, dead \ {ws})

\* the pairs of a session and one of a set of sockets
Pairs(session_id, wss) == {<<session_id, ws>> : ws \in wss}

\* await MANAGER.connect(session_id, ws)
ManagerConnect(session_id, ws) ==
    /\ sessions' = connect(sessions, session_id, ws)
    /\ registered' = registered \cup {<<session_id, ws>>}
    /\ UNCHANGED << broadcasting, outside_manager >>

\* MANAGER.disconnect(session_id, ws)
ManagerDisconnect(session_id, ws) ==
    /\ sessions' = disconnect(sessions, session_id, ws)
    /\ registered' = registered \ {<<session_id, ws>>}
    /\ UNCHANGED << broadcasting, outside_manager >>

\* broadcast(session_id, message) up to its loop
ManagerBroadcastStart(session_id) ==
    /\ broadcasting.status # "sending"
    /\ broadcasting' =
           [status |-> "sending", session_id |-> session_id,
            pending |-> subscribers(sessions, session_id), dead |-> {}]
    /\ UNCHANGED << sessions, registered, outside_manager >>

\* one iteration of the loop: await ws.send_json(message) returns or raises
ManagerBroadcastSend(ws, raises) ==
    /\ broadcasting.status = "sending"
    /\ ws \in broadcasting.pending
    /\ broadcasting' =
           [broadcasting EXCEPT !.pending = @ \ {ws},
                                !.dead = IF raises THEN @ \cup {ws} ELSE @]
    /\ UNCHANGED << sessions, registered, outside_manager >>

\* after the loop: the dead sockets are disconnected and broadcast returns
ManagerBroadcastReturns ==
    /\ broadcasting.status = "sending"
    /\ broadcasting.pending = {}
    /\ sessions' =
           disconnect_dead(sessions, broadcasting.session_id, broadcasting.dead)
    /\ registered' =
           registered \ Pairs(broadcasting.session_id, broadcasting.dead)
    /\ broadcasting' = [broadcasting EXCEPT !.status = "returned"]
    /\ UNCHANGED outside_manager

NextManager ==
    \/ \E session_id \in SessionIds, ws \in WebSockets :
           ManagerConnect(session_id, ws)
    \/ \E session_id \in SessionIds, ws \in WebSockets :
           ManagerDisconnect(session_id, ws)
    \/ \E session_id \in SessionIds : ManagerBroadcastStart(session_id)
    \/ \E ws \in WebSockets, raises \in BOOLEAN : ManagerBroadcastSend(ws, raises)
    \/ ManagerBroadcastReturns

SpecManager == Init /\ [][NextManager]_vars

\* ------------------------------------------------------------ _fetch_jwks
JWKS_CACHE_TTL_SECONDS == 3600

\* the tenant of the service, and another one
AAD_TENANT_ID == "t1"
Tenants == {AAD_TENANT_ID, "t2"}

\* the clock values at which calls are made: around the expiry of a fetch made
\* at time 0 and of one made at time 3600
Times == {0, 1, 3599, 3600, 3601, 7199, 7200}

\* the key documents the tenant's discovery endpoint serves (response.json())
JwksDocuments == { [keys |-> {"k1"}], [keys |-> {"k1", "k2"}] }

\* what httpx.get and raise_for_status do: a document, or an httpx.HTTPError
HTTPError == [error |-> "HTTPError"]
NetworkOutcomes == JwksDocuments \cup {HTTPError}

\* a cache whose entry is still served at its expiration time
CacheFresh_AtExpiry(tenant_id) ==
    /\ tenant_id \in DOMAIN JWKS_CACHE
    /\ tenant_id \in DOMAIN JWKS_CACHE_EXPIRATION
    /\ now <= JWKS_CACHE_EXPIRATION[tenant_id]

\* if cached and now < expires_at (expires_at is 0 without an entry)
CacheFresh(tenant_id) ==
    /\ tenant_id \in DOMAIN JWKS_CACHE
    /\ now < (IF tenant_id \in DOMAIN JWKS_CACHE_EXPIRATION
              THEN JWKS_CACHE_EXPIRATION[tenant_id] ELSE 0)

\* what a _fetch_jwks call does: it returns the keys (status 200) or raises
\* HTTPException 503
FetchReturn(tenant_id, outcome) ==
    IF CacheFresh(tenant_id)
    THEN [tenant |-> tenant_id, time |-> now, network |-> FALSE, status |-> 200,
          data |-> JWKS_CACHE[tenant_id]]
    ELSE IF outcome \notin JwksDocuments
    THEN [tenant |-> tenant_id, time |-> now, network |-> TRUE, status |-> 503,
          data |-> [keys |-> {}]]
    ELSE [tenant |-> tenant_id, time |-> now, network |-> TRUE, status |-> 200,
          data |-> outcome]

\* _fetch_jwks(tenant_id), with the outcome of its network request if it
\* makes one
FetchJwks(tenant_id, outcome) ==
    LET call == FetchReturn(tenant_id, outcome) IN
        /\ IF call.network /\ call.status = 200
           THEN /\ JWKS_CACHE' = DictSet(JWKS_CACHE, tenant_id, call.data)
                /\ JWKS_CACHE_EXPIRATION' =
                       DictSet(JWKS_CACHE_EXPIRATION, tenant_id,
                               now + JWKS_CACHE_TTL_SECONDS)
                /\ fetches' = [last |-> call,
                               fetched |-> DictSet(fetches.fetched, tenant_id,
                                                   [time |-> now, data |-> call.data])]
           ELSE /\ UNCHANGED << JWKS_CACHE, JWKS_CACHE_EXPIRATION >>
                /\ fetches' = [fetches EXCEPT !.last = call]

\* everything but the key cache and the clock
outside_jwks ==
    << DISABLE_AUTH, handlers, registered, agents_created, http_log,
       CURRENT_AGENT_MODULE, AgentClass, STATE_STORE, sessions, sockets,
       delivered, broadcasting, agent_vars >>

\* a call of _fetch_jwks
FetchJwksCall(tenant_id, outcome) ==
    /\ FetchJwks(tenant_id, outcome)
    /\ UNCHANGED << now, outside_jwks >>

\* time passes
Tick(t) ==
    /\ t > now
    /\ now' = t
    /\ UNCHANGED << JWKS_CACHE, JWKS_CACHE_EXPIRATION, fetches, outside_jwks >>

NextJwks ==
    \/ \E tenant_id \in Tenants, outcome \in NetworkOutcomes :
           FetchJwksCall(tenant_id, outcome)
    \/ \E t \in Times : Tick(t)

SpecJwks == Init /\ [][NextJwks]_vars

\* ------------------------------------------------------- set_active_agent
\* the HTTP requests a run answers
MaxRequests == 2

\* the module paths clients name: the available ones and one that is not
RequestedModules ==
    {AVAILABLE_AGENTS[i] : i \in DOMAIN AVAILABLE_AGENTS} \cup {"unknown_agent"}

\* a service that loads whatever module the request names
ModuleAvailable_Any(module_path) == TRUE

\* req.module_path in AVAILABLE_AGENTS
ModuleAvailable(module_path) ==
    \E i \in DOMAIN AVAILABLE_AGENTS : AVAILABLE_AGENTS[i] = module_path

\* the answer to an HTTP request
Response(endpoint, argument, status) ==
    [endpoint |-> endpoint, argument |-> argument, status |-> status]

\* everything but the active agent module and the answers to HTTP requests
outside_agents ==
    << DISABLE_AUTH, handlers, registered, agents_created, JWKS_CACHE,
       JWKS_CACHE_EXPIRATION, now, fetches, STATE_STORE, sessions, sockets,
       delivered, broadcasting, agent_vars >>

\* POST /agents/set: loads is whether the import of the module succeeds
set_active_agent(module_path, loads) ==
    /\ Len(http_log) < MaxRequests
    /\ IF ~ModuleAvailable(module_path)
       THEN /\ http_log' = Append(http_log, Response("/agents/set", module_path, "error"))
            /\ UNCHANGED << CURRENT_AGENT_MODULE, AgentClass >>
       ELSE IF ~loads
       THEN /\ http_log' = Append(http_log, Response("/agents/set", module_path, "error"))
            /\ UNCHANGED << CURRENT_AGENT_MODULE, AgentClass >>
       ELSE /\ CURRENT_AGENT_MODULE' = module_path
            /\ AgentClass' = load_agent_class(module_path)
            /\ http_log' = Append(http_log, Response("/agents/set", module_path, "success"))
    /\ UNCHANGED outside_agents

\* GET /agents: the current module is reported
list_agents ==
    /\ Len(http_log) < MaxRequests
    /\ http_log' = Append(http_log, Response("/agents", CURRENT_AGENT_MODULE, "success"))
    /\ UNCHANGED << CURRENT_AGENT_MODULE, AgentClass, outside_agents >>

NextAgents ==
    \/ \E module_path \in RequestedModules, loads \in BOOLEAN :
           set_active_agent(module_path, loads)
    \/ list_agents

SpecAgents == Init /\ [][NextAgents]_vars

\* ---------------------------------------------------------- reset_session
\* the turns whose messages a session's stored history holds at most
MaxStoredTurns == 2

\* the session ids of the requests: any string is accepted as a session id,
\* also one that ends like a history key
StoreSessionIds == {"s1", "s2", "s1_chat_history"}

\* hist_key = f"{req.session_id}_chat_history"
hist_key(session_id) == session_id \o "_chat_history"

\* the keys the store keeps for a session: its state and its chat history
KeysOf(session_id) == {session_id, hist_key(session_id)}

\* the messages of one turn, as append_to_chat_history stores them
StoredTurn ==
    <<[role |-> "user", content |-> "prompt"],
      [role |-> "assistant", content |-> "response"]>>

\* STATE_STORE.get(f"{session_id}_chat_history", [])
HistoryIn(store, session_id) ==
    IF hist_key(session_id) \in DOMAIN store THEN store[hist_key(session_id)]
    ELSE << >>

\* if key in STATE_STORE: del STATE_STORE[key], for the two keys
AfterReset(store, session_id) ==
    DictPop(DictPop(store, session_id), hist_key(session_id))

\* everything but the state store
outside_store ==
    << DISABLE_AUTH, handlers, registered, agents_created, http_log, JWKS_CACHE,
       JWKS_CACHE_EXPIRATION, now, fetches, CURRENT_AGENT_MODULE, AgentClass,
       sessions, sockets, delivered, broadcasting, agent_vars >>

\* POST /reset_session
reset_session(session_id) ==
    /\ STATE_STORE' = AfterReset(STATE_STORE, session_id)
    /\ UNCHANGED outside_store

\* chat_async: self.append_to_chat_history(messages) adds the turn's two
\* messages to the list stored under the session's history key
append_to_chat_history(session_id) ==
    /\ hist_key(session_id) \in DOMAIN STATE_STORE =>
           /\ STATE_STORE[hist_key(session_id)] # "state"
           /\ Len(STATE_STORE[hist_key(session_id)]) < 2 * MaxStoredTurns
    /\ STATE_STORE' =
           DictSet(STATE_STORE, hist_key(session_id),
                   HistoryIn(STATE_STORE, session_id) \o StoredTurn)
    /\ UNCHANGED outside_store

\* an agent keeps its state under the session id
StoreAgentState(session_id) ==
    /\ STATE_STORE' = DictSet(STATE_STORE, session_id, "state")
    /\ UNCHANGED outside_store

NextStore ==
    \/ \E session_id \in StoreSessionIds : reset_session(session_id)
    \/ \E session_id \in StoreSessionIds : append_to_chat_history(session_id)
    \/ \E session_id \in StoreSessionIds : StoreAgentState(session_id)

SpecStore == Init /\ [][NextStore]_vars

\* ------------------------------------------------------ ws_chat and /chat
\* the frames a ws_chat coroutine reads from its socket
MaxFrames == 2

\* the connections that are opened
ServiceSockets == {"w1", "w2"}

\* the access tokens clients present: none, text that is not a JWT, a JWT
\* whose signature does not verify, a JWT of a user outside the allowed email
\* domain, and a JWT that passes every check
Tokens == {None, "not-a-jwt", "bad-signature", "other-domain", "valid"}

\* data = await ws.receive_json(): session_id, prompt and access_token, each
\* of which may be absent
FrameData ==
    [session_id : SessionIds \cup {None}, prompt : {None, "p1"},
     access_token : Tokens]

\* the Authorization headers of /chat requests: none, or a scheme and a token
Headers ==
    {[scheme |-> None, token |-> None]}
        \cup [scheme : {"Bearer", "Basic"}, token : {"bad-signature", "valid"}]

\* _build_public_key reaches _fetch_jwks: the token has a header with a key id
NeedsKeys(token) == ~DISABLE_AUTH /\ token \notin {None, "not-a-jwt"}

\* a validation that accepts a token whose signature does not verify
ValidationStatus_Unverified(token, call) ==
    IF DISABLE_AUTH THEN 200
    ELSE IF token = None THEN 401
    ELSE IF token = "not-a-jwt" THEN 401
    ELSE IF call.status # 200 THEN call.status
    ELSE IF token = "other-domain" THEN 403
    ELSE 200

\* _validate_jwt: 200 when it returns the claims, else the status code of the
\* HTTPException it raises; call is what _fetch_jwks did
ValidationStatus(token, call) ==
    IF DISABLE_AUTH THEN 200
    ELSE IF token = None THEN 401
    ELSE IF token = "not-a-jwt" THEN 401
    ELSE IF call.status # 200 THEN call.status
    ELSE IF "k1" \notin call.data.keys THEN 401
    ELSE IF token = "bad-signature" THEN 401
    ELSE IF token = "other-domain" THEN 403
    ELSE 200

\* the key cache after _validate_jwt(token)
ValidateJwt(token, outcome) ==
    IF NeedsKeys(token) THEN FetchJwks(AAD_TENANT_ID, outcome)
    ELSE UNCHANGED << JWKS_CACHE, JWKS_CACHE_EXPIRATION, fetches >>

\* a frame sent to a socket; status is the text the frame carries besides its
\* type: the message or the status code of an error, the socket a turn began on
Sent(type, session_id, status) ==
    [type |-> type, session_id |-> session_id, status |-> status]

\* agent = Agent(STATE_STORE, session_id, access_token=token)
Created(entry, session_id, token) ==
    [entry |-> entry, session_id |-> session_id, access_token |-> token]

\* what the service does not touch while it serves sockets and /chat
outside_service ==
    << DISABLE_AUTH, now, CURRENT_AGENT_MODULE, AgentClass, STATE_STORE,
       broadcasting, agent_vars >>

\* await ws.accept()
Accept(ws) ==
    /\ handlers[ws].pc = "accept"
    /\ sockets[ws] = "new"
    /\ sockets' = [sockets EXCEPT ![ws] = "open"]
    /\ handlers' = [handlers EXCEPT ![ws].pc = "receive"]
    /\ UNCHANGED << sessions, registered, delivered, agents_created, http_log,
                    JWKS_CACHE, JWKS_CACHE_EXPIRATION, fetches, outside_service >>

\* the client goes away: send_json and receive_json on the socket raise
ClientCloses(ws) ==
    /\ sockets[ws] = "open"
    /\ sockets' = [sockets EXCEPT ![ws] = "closed"]
    /\ UNCHANGED << handlers, sessions, registered, delivered, agents_created,
                    http_log, JWKS_CACHE, JWKS_CACHE_EXPIRATION, fetches,
                    outside_service >>

\* one iteration of the loop of ws_chat, from receive_json to a continue or to
\* the construction of the agent
ReceiveFrame(ws, data, outcome) ==
    LET h == handlers[ws]
        status == ValidationStatus(data.access_token,
                                   FetchReturn(AAD_TENANT_ID, outcome))
        token == IF DISABLE_AUTH /\ data.access_token = None
                 THEN "dev-anon-token" ELSE data.access_token
        rejected == status # 200 \/ data.session_id = None
        registers == ~rejected /\ h.connected_session = None
        reply == IF ~DISABLE_AUTH /\ data.access_token = None
                 THEN <<Sent("error", None, "Missing access_token")>>
                 ELSE IF status # 200
                 THEN <<Sent("error", None, ToString(status))>>
                 ELSE IF data.session_id = None
                 THEN <<Sent("error", None, "Missing session_id")>>
                 ELSE IF registers
                 THEN <<Sent("info", data.session_id, "Registered session")>>
                 ELSE << >>
    IN  /\ h.pc = "receive"
        /\ sockets[ws] = "open"
        /\ h.received < MaxFrames
        /\ ValidateJwt(data.access_token, outcome)
        /\ delivered' = [delivered EXCEPT ![ws] = @ \o reply]
        /\ sessions' = IF registers THEN connect(sessions, data.session_id, ws)
                       ELSE sessions
        /\ registered' = IF registers
                         THEN registered \cup {<<data.session_id, ws>>}
                         ELSE registered
        /\ agents_created' =
               IF ~rejected /\ data.prompt # None
               THEN agents_created \cup {Created("ws_chat", data.session_id, token)}
               ELSE agents_created
        /\ handlers' =
               [handlers EXCEPT ![ws] =
                   [h EXCEPT !.received = @ + 1,
                             !.connected_session =
                                 IF registers THEN data.session_id ELSE @,
                             !.pc = IF ~rejected /\ data.prompt # None
                                    THEN "turn" ELSE "receive",
                             !.session_id = IF ~rejected /\ data.prompt # None
                                            THEN data.session_id ELSE @,
                             !.access_token = IF ~rejected /\ data.prompt # None
                                              THEN token ELSE @,
                             !.sent = 0]]
        /\ UNCHANGED << sockets, http_log, outside_service >>

\* the frames of a turn: the plan frame of the agent, then done or error
TurnFrameTypes(sent) ==
    IF sent = 0 THEN {"orchestrator"} ELSE {"done", "error"}

\* MANAGER.broadcast(session_id, message) of a frame of the running turn, up
\* to its loop
TurnBroadcastStart(ws, type) ==
    LET h == handlers[ws] IN
        /\ h.pc = "turn"
        /\ type \in TurnFrameTypes(h.sent)
        /\ handlers' =
               [handlers EXCEPT ![ws] =
                   [h EXCEPT !.pc = "broadcast", !.message = type,
                             !.pending = subscribers(sessions, h.session_id),
                             !.dead = {}]]
        /\ UNCHANGED << sockets, sessions, registered, delivered, agents_created,
                        http_log, JWKS_CACHE, JWKS_CACHE_EXPIRATION, fetches,
                        outside_service >>

\* one iteration of the loop of broadcast: await target.send_json(message)
TurnBroadcastSend(ws, target) ==
    LET h == handlers[ws] IN
        /\ h.pc = "broadcast"
        /\ target \in h.pending
        /\ IF sockets[target] = "open"
           THEN /\ delivered' =
                       [delivered EXCEPT
                           ![target] = Append(@, Sent(h.message, h.session_id, ws))]
                /\ handlers' = [handlers EXCEPT ![ws].pending = @ \ {target}]
           ELSE /\ handlers' = [handlers EXCEPT ![ws].pending = @ \ {target},
                                                ![ws].dead = @ \cup {target}]
                /\ UNCHANGED delivered
        /\ UNCHANGED << sockets, sessions, registered, agents_created, http_log,
                        JWKS_CACHE, JWKS_CACHE_EXPIRATION, fetches,
                        outside_service >>

\* broadcast after its loop; after the done or error frame the coroutine is
\* back at receive_json
TurnBroadcastReturns(ws) ==
    LET h == handlers[ws] IN
        /\ h.pc = "broadcast"
        /\ h.pending = {}
        /\ sessions' = disconnect_dead(sessions, h.session_id, h.dead)
        /\ registered' = registered \ Pairs(h.session_id, h.dead)
        /\ handlers' =
               [handlers EXCEPT ![ws] =
                   [h EXCEPT !.pc = IF h.message \in {"done", "error"}
                                    THEN "receive" ELSE "turn",
                             !.sent = @ + 1]]
        /\ UNCHANGED << sockets, delivered, agents_created, http_log, JWKS_CACHE,
                        JWKS_CACHE_EXPIRATION, fetches, outside_service >>

\* receive_json raises WebSocketDisconnect; finally: if connected_session:
\* MANAGER.disconnect(connected_session, ws)
HandlerExits(ws) ==
    LET h == handlers[ws] IN
        /\ h.pc = "receive"
        /\ sockets[ws] = "closed"
        /\ sessions' = IF h.connected_session # None
                       THEN disconnect(sessions, h.connected_session, ws)
                       ELSE sessions
        /\ registered' = IF h.connected_session # None
                         THEN registered \ {<<h.connected_session, ws>>}
                         ELSE registered
        /\ handlers' = [handlers EXCEPT ![ws].pc = "exited"]
        /\ UNCHANGED << sockets, delivered, agents_created, http_log, JWKS_CACHE,
                        JWKS_CACHE_EXPIRATION, fetches, outside_service >>

\* verify_token: the bearer token of the header, validated
HeaderToken(authorization) ==
    IF DISABLE_AUTH THEN "dev-anon-token"
    ELSE IF authorization.scheme # "Bearer" THEN None
    ELSE authorization.token

\* POST /chat: verify_token, then the agent and its turn
chat(authorization, session_id, outcome) ==
    LET token == HeaderToken(authorization)
        status == ValidationStatus(token, FetchReturn(AAD_TENANT_ID, outcome))
    IN  /\ Len(http_log) < MaxRequests
        /\ ValidateJwt(token, outcome)
        /\ http_log' = Append(http_log, Response("/chat", session_id, status))
        /\ agents_created' =
               IF status = 200
               THEN agents_created \cup {Created("chat", session_id, token)}
               ELSE agents_created
        /\ UNCHANGED << handlers, sockets, sessions, registered, delivered,
                        outside_service >>

\* the service starts with authentication on or off; no agent runs yet
InitService ==
    /\ Constructed
    /\ max_refinements = MaxRefinementsBound
    /\ config_missing = {}
    /\ ServiceStarted
    /\ DISABLE_AUTH \in BOOLEAN

\* the discovery endpoint serves the tenant's key document or fails
ServiceOutcomes == {[keys |-> {"k1"}], HTTPError}

\* the frames of a client of a service that runs without authentication
SocketFrames == {data \in FrameData : data.access_token = None}

\* the frames of a client that only listens: it names a session and sends no
\* prompt
ListenerFrames == {data \in SocketFrames : data.prompt = None}

\* two connections served side by side: w1 starts turns, w2 listens
NextSockets ==
    \/ \E ws \in ServiceSockets : Accept(ws)
    \/ \E ws \in ServiceSockets : ClientCloses(ws)
    \/ \E data \in SocketFrames : ReceiveFrame("w1", data, HTTPError)
    \/ \E data \in ListenerFrames : ReceiveFrame("w2", data, HTTPError)
    \/ \E ws \in ServiceSockets, type \in {"orchestrator", "done", "error"} :
           TurnBroadcastStart(ws, type)
    \/ \E ws \in ServiceSockets, target \in ServiceSockets :
           TurnBroadcastSend(ws, target)
    \/ \E ws \in ServiceSockets : TurnBroadcastReturns(ws)
    \/ \E ws \in ServiceSockets : HandlerExits(ws)

\* a service started with DISABLE_AUTH set, as for local development
InitSockets ==
    /\ Constructed
    /\ max_refinements = MaxRefinementsBound
    /\ config_missing = {}
    /\ ServiceStarted
    /\ DISABLE_AUTH = TRUE

SpecSockets == InitSockets /\ [][NextSockets]_vars

\* the frames and the requests of one client, with every kind of token
AuthFrames == {data \in FrameData : data.session_id \in {None, "s1"}}

AuthSessionIds == {"s1"}

\* the two entry points of a turn, with every kind of token: one connection
\* and the /chat requests
NextAuth ==
    \/ Accept("w1")
    \/ ClientCloses("w1")
    \/ \E data \in AuthFrames, outcome \in ServiceOutcomes :
           ReceiveFrame("w1", data, outcome)
    \/ \E type \in {"orchestrator", "done", "error"} : TurnBroadcastStart("w1", type)
    \/ TurnBroadcastSend("w1", "w1")
    \/ TurnBroadcastReturns("w1")
    \/ HandlerExits("w1")
    \/ \E authorization \in Headers, session_id \in AuthSessionIds,
          outcome \in ServiceOutcomes : chat(authorization, session_id, outcome)

SpecAuth == InitService /\ [][NextAuth]_vars


\* ------------------------------------------------------------ vocabulary
IsPrefix(s, t) == Len(s) <= Len(t) /\ SubSeq(t, 1, Len(s)) = s

Returned(rid) == turn[rid].state = "returned"
Raised(rid) == turn[rid].state = "raised"

\* the reviewer rejected the first k candidates and approved the (k+1)-th
RejectedThenApproved(rid, k) ==
    /\ Len(verdicts[rid]) = k + 1
    /\ verdicts[rid][k + 1]
    /\ \A i \in 1..k : ~verdicts[rid][i]

\* the reviewer rejected every candidate it judged, n of them
RejectedAll(rid, n) ==
    /\ Len(verdicts[rid]) = n
    /\ \A i \in 1..n : ~verdicts[rid][i]

\* the (user, assistant) pair chat_async records for a turn
TurnPair(rid) ==
    <<ChatMessage("user", turn[rid].prompt),
      ChatMessage("assistant", turn[rid].response_text)>>

\* the history holds the turn's snapshot, then the turn's pair, adjacent
PairCommitted(rid) ==
    IsPrefix(turn[rid].request.conversation_history \o TurnPair(rid),
             conversation_history)

ReviewRequestInFlight(rid) ==
    \E m \in inbox : m.type = "ReviewRequest" /\ m.request_id = rid

ApprovalInFlight(rid) ==
    \E m \in inbox : m.type = "ReviewResponse" /\ m.request_id = rid /\ m.approved

RejectionInFlight(rid) ==
    \E m \in inbox : m.type = "ReviewResponse" /\ m.request_id = rid /\ ~m.approved

\* ----------------------------------------------------------------- claims

\* C1: every request id with a refinement-counter entry has
\* 0 <= counter <= max_refinements, in every reachable state (so also in the
\* state in which handle_review_feedback removes the pending entry).
C1_CounterWithinBudget ==
    \A rid \in DOMAIN refinement_counts :
        0 <= refinement_counts[rid] /\ refinement_counts[rid] <= max_refinements

\* C1 witness: a rejection reaches the generator while the counter of a turn
\* with a positive budget stands at the budget.
C1_Witness ==
    \E rid \in DOMAIN refinement_counts :
        /\ max_refinements >= 1
        /\ refinement_counts[rid] = max_refinements
        /\ rid \in DOMAIN pending_requests
        /\ RejectionInFlight(rid)

\* C2: when the reviewer rejects the first k candidates and approves the
\* (k+1)-th, with k = 0 or 0 < k < max_refinements, there are exactly k+1
\* generation calls and k+1 review calls for the request id, one payload
\* event carrying the (k+1)-th candidate's contents, and the final text of
\* the streamed turn is the (k+1)-th candidate's text.
C2_ApprovedAfterKRejections ==
    \A rid \in RequestIds : \A k \in 0..MaxRefinementsBound + 1 :
        (RejectedThenApproved(rid, k) /\ (k = 0 \/ k < max_refinements)) =>
            /\ gen_calls[rid] = k + 1
            /\ review_calls[rid] = k + 1
            /\ Len(candidates[rid]) = k + 1
            /\ Len(events[rid]) = 1
            /\ events[rid][1].contents = AllContents(candidates[rid][k + 1])
            /\ (ws_manager /\ Returned(rid)) =>
                   turn[rid].response_text = CandidateText(candidates[rid][k + 1])

\* C2 witness: a streamed turn has returned after one rejection and one
\* approval of a different candidate, with budget to spare.
C2_Witness ==
    \E rid \in RequestIds :
        /\ ws_manager /\ Returned(rid)
        /\ max_refinements = 2
        /\ RejectedThenApproved(rid, 1)
        /\ candidates[rid][1] # candidates[rid][2]


C4_ForcedApprovalIsTerminal ==
    \A rid \in RequestIds :
        /\ gen_calls[rid] <= max_refinements + 1
        /\ resolution[rid] = "forced" =>
               /\ rid \notin DOMAIN gen
               /\ rid \notin DOMAIN rev
               /\ ~ReviewRequestInFlight(rid)
               /\ gen_calls[rid] = max_refinements + 1
               /\ review_calls[rid] = max_refinements + 1
               /\ RejectedAll(rid, max_refinements + 1)

\* C4 witness: a turn with a positive budget was force-approved and has
\* returned.
C4_Witness ==
    \E rid \in RequestIds :
        /\ resolution[rid] = "forced"
        /\ max_refinements >= 1
        /\ Returned(rid)


\* C5: a turn that ends in forced approval has, no later than its
\* resolution, a payload event in its output stream that carries the last
\* generated candidate, and the payload is not empty.
C5_ForcedApprovalDeliversOutput ==
    \A rid \in RequestIds :
        resolution[rid] = "forced" =>
            /\ events[rid] # << >>
            /\ Last(events[rid]).contents = AllContents(Last(candidates[rid]))
            /\ ConcatTexts(Last(events[rid]).contents) # << >>

\* C6: with max_refinements = 0 and a reviewer that rejects the first
\* candidate, the returned turn has made exactly one generation call and one
\* review call, and the text chat_async returns, the assistant entry it
\* records in the history, is the sole candidate's text (stated for the
\* streamed turn, whose text _run_workflow_streaming itself accumulates).
C6_ZeroBudgetReturnsSoleCandidate ==
    \A rid \in RequestIds :
        (max_refinements = 0 /\ RejectedAll(rid, 1) /\ Returned(rid) /\ ws_manager) =>
            /\ gen_calls[rid] = 1
            /\ review_calls[rid] = 1
            /\ turn[rid].response_text = CandidateText(candidates[rid][1])
            /\ PairCommitted(rid)

\* C7: every turn that has returned (approved or force-approved) leaves the
\* history it started from followed by (user, prompt), (assistant, finalText),
\* adjacent and in that order, and nothing else is ever added: every step
\* either keeps the history or is the return of one turn, which appends that
\* turn's pair to it.
C7_OnePairPerReturnedTurn ==
    [][ /\ IsPrefix(conversation_history, conversation_history')
        /\ \A rid \in RequestIds :
               (TurnRunning(rid) /\ Returned(rid)') =>
                   /\ resolution[rid] \in {"approved", "forced"}
                   /\ conversation_history = turn[rid].request.conversation_history
                   /\ conversation_history' =
                          conversation_history \o
                              <<ChatMessage("user", turn[rid].prompt),
                                ChatMessage("assistant", turn'[rid].response_text)>>
        /\ (conversation_history' # conversation_history) =>
               \E rid \in RequestIds : TurnRunning(rid) /\ Returned(rid)'
      ]_vars

\* C7 witness: two turns have returned, one approved and one force-approved.
C7_Witness ==
    /\ \E rid \in RequestIds : Returned(rid) /\ resolution[rid] = "approved"
    /\ \E rid \in RequestIds : Returned(rid) /\ resolution[rid] = "forced"
    /\ Len(conversation_history) = 4

\* C8: a turn that raises (the provider failed in the first generation, in
\* a regeneration or in the review, or the verdict was malformed) leaves the
\* history as it was when the turn began: the step that raises changes
\* nothing in it, the user's prompt included; and the call has raised for
\* good, it never returns a text.
C8_FailedTurnKeepsHistory ==
    [][ \A rid \in RequestIds :
            /\ (TurnRunning(rid) /\ Raised(rid)') =>
                   /\ conversation_history' = conversation_history
                   /\ conversation_history' = turn[rid].request.conversation_history
            /\ Raised(rid) => Raised(rid)'
      ]_vars

\* C8 witness: a turn that began with a non-empty history has raised after a
\* rejection (in the regeneration or in the second review).
C8_Witness ==
    \E rid \in RequestIds :
        /\ Raised(rid)
        /\ turn[rid].request.conversation_history # << >>
        /\ gen_calls[rid] = 2
        /\ conversation_history = turn[rid].request.conversation_history


\* the number of approving verdicts among the first n
RECURSIVE ApprovedCount(_, _)
ApprovedCount(vs, n) ==
    IF n = 0 THEN 0 ELSE ApprovedCount(vs, n - 1) + (IF vs[n] THEN 1 ELSE 0)

C10_PayloadBeforeApproval ==
    \A rid \in RequestIds :
        (ApprovalInFlight(rid) \/ resolution[rid] = "approved") =>
            /\ events[rid] # << >>
            /\ Last(events[rid]).contents = AllContents(Last(candidates[rid]))

\* C10 witness: the payload event is in the stream and the reviewer has not
\* yet sent its approval (it is suspended between add_event and send_message).
C10_Witness ==
    \E rid \in DOMAIN rev :
        /\ rev[rid].stage = "send_message"
        /\ rev[rid].decision.approved
        /\ events[rid] # << >>
        /\ ~ApprovalInFlight(rid)
        /\ rid \in DOMAIN pending_requests

\* the reviewer has decoded a verdict of rid and has not yet sent it
SendPending(rid) == rid \in DOMAIN rev /\ rev[rid].stage = "send_message"

\* C11: for every verdict the reviewer decodes it sends exactly one
\* ReviewResponse, which carries the id of the reviewed request and the approved
\* flag and the feedback that were decoded: the responses sent for an id are, in
\* order, the decoded verdicts of that id, the last one possibly still to be sent
C11_OneReviewResponsePerVerdict ==
    \A rid \in RequestIds :
        /\ Len(sent_reviews[rid]) + (IF SendPending(rid) THEN 1 ELSE 0)
               = Len(decisions[rid])
        /\ \A i \in 1..Len(sent_reviews[rid]) :
               sent_reviews[rid][i] =
                   [type |-> "ReviewResponse", request_id |-> rid,
                    approved |-> decisions[rid][i].approved,
                    feedback |-> decisions[rid][i].feedback]

\* a rejection and then an approval have been decoded and both have been sent
C11_Witness ==
    \E rid \in RequestIds :
        /\ Len(sent_reviews[rid]) = 2
        /\ ~decisions[rid][1].approved
        /\ decisions[rid][1].feedback # << >>
        /\ decisions[rid][2].approved

\* the generator takes a ReviewResponse of rid from its input in this step
\* while the pending table has no entry for rid
HandlesUnknownReview(rid) ==
    /\ TurnRunning(rid)
    /\ rid \notin DOMAIN pending_requests
    /\ \E m \in inbox \ inbox' : m.type = "ReviewResponse" /\ m.request_id = rid

\* C12: handling a ReviewResponse whose id has no pending entry always raises
\* (the turn fails with ValueError), leaves the pending table and the counter
\* map as they were, starts no Completion Provider call and sends no
\* ReviewRequest
C12_UnknownIdRaises ==
    [][\A rid \in RequestIds :
          HandlesUnknownReview(rid) =>
              /\ turn'[rid].state = "raised"
              /\ turn'[rid].error = "ValueError"
              /\ pending_requests' = pending_requests
              /\ refinement_counts' = refinement_counts
              /\ gen' = gen /\ gen_calls' = gen_calls
              /\ rev' = rev /\ review_calls' = review_calls
              /\ ~\E q \in inbox' \ inbox : q.type = "ReviewRequest"]_vars

\* a turn has failed on a ReviewResponse for an id the generator did not know
C12_Witness ==
    \E rid \in RequestIds : Raised(rid) /\ turn[rid].error = "ValueError"

\* the generator has resolved the turn of rid: APPROVED or FORCED_APPROVED
Resolved(rid) == resolution[rid] \in {"approved", "forced"}

\* the generator resolves the turn of rid in this step
Resolves(rid) == resolution'[rid] # resolution[rid]

\* C13: the pending entry of an id exists only after the first successful
\* generation and is there while the candidate awaits its review; once the turn
\* is APPROVED or FORCED_APPROVED neither the pending table nor the counter map
\* holds the id; and the terminal removal happens once: the step that resolves
\* a turn starts from an unresolved turn, removes the entry, and nothing
\* re-creates the entry afterwards
C13_PendingEntryLifecycle ==
    /\ [](\A rid \in RequestIds :
            /\ rid \in DOMAIN pending_requests => Len(candidates[rid]) >= 1
            /\ rid \in DOMAIN refinement_counts => Len(candidates[rid]) >= 1
            /\ (TurnRunning(rid) /\ Len(candidates[rid]) >= 1
                    /\ ~Resolved(rid) /\ rid \notin DOMAIN gen)
                   => rid \in DOMAIN pending_requests
            /\ Resolved(rid) => /\ rid \notin DOMAIN pending_requests
                                /\ rid \notin DOMAIN refinement_counts)
    /\ [][\A rid \in RequestIds :
              /\ Resolves(rid) => /\ resolution[rid] = None
                                  /\ rid \in DOMAIN pending_requests
                                  /\ rid \notin DOMAIN pending_requests'
              /\ Resolved(rid) => rid \notin DOMAIN pending_requests']_vars

\* a turn was approved after a rejection had raised its counter, and another
\* turn was force-approved
C13_Witness ==
    \E r1, r2 \in RequestIds :
        /\ resolution[r1] = "approved" /\ Len(verdicts[r1]) >= 2
        /\ resolution[r2] = "forced"

\* the reviewer's last ReviewResponse of rid approved, and the generator has
\* taken it from its input
ApprovalProcessed(rid) ==
    /\ sent_reviews[rid] # << >>
    /\ Last(sent_reviews[rid]).approved
    /\ ~ApprovalInFlight(rid)

\* C14: APPROVED is absorbing: once the generator has processed a
\* ReviewResponse with approved = true for an id, that id has no generation
\* call and no review call in flight or started since (each count equals the
\* number of reviews sent), no ReviewRequest in flight, and no output event
\* beyond the one the approval produced
C14_ApprovedIsAbsorbing ==
    \A rid \in RequestIds :
        ApprovalProcessed(rid) =>
            /\ rid \notin DOMAIN gen
            /\ rid \notin DOMAIN rev
            /\ ~ReviewRequestInFlight(rid)
            /\ gen_calls[rid] = Len(sent_reviews[rid])
            /\ review_calls[rid] = Len(sent_reviews[rid])
            /\ Len(candidates[rid]) = Len(sent_reviews[rid])
            /\ Len(events[rid]) = 1
            /\ \A i \in 1..(Len(sent_reviews[rid]) - 1) : ~sent_reviews[rid][i].approved

\* an approval that followed a rejection has been processed while the budget
\* would still have allowed a regeneration, and the turn has returned
C14_Witness ==
    \E rid \in RequestIds :
        /\ ApprovalProcessed(rid)
        /\ Len(sent_reviews[rid]) = 2
        /\ max_refinements = 2
        /\ Returned(rid)

\* a Completion Provider call of the generator, of the reviewer, is in flight
GenerationInFlight(rid) == rid \in DOMAIN gen
ReviewInFlight(rid) == rid \in DOMAIN rev /\ rev[rid].stage = "get_response"

\* C15: for one id the generation calls and the review calls alternate,
\* starting with a generation: the i-th review call starts only after the i-th
\* generation call has returned its candidate, the (i+1)-th generation call
\* starts only after the i-th review call has returned its verdict, and the two
\* are never in flight together
C15_CallsAlternate ==
    \A rid \in RequestIds :
        /\ ~(GenerationInFlight(rid) /\ rid \in DOMAIN rev)
        /\ review_calls[rid] <= Len(candidates[rid])
        /\ Len(candidates[rid]) <= gen_calls[rid]
        /\ gen_calls[rid] <= Len(decisions[rid]) + 1
        /\ Len(decisions[rid]) <= review_calls[rid]
        /\ GenerationInFlight(rid) =>
               /\ gen_calls[rid] = review_calls[rid] + 1
               /\ Len(candidates[rid]) = review_calls[rid]
               /\ Len(decisions[rid]) = review_calls[rid]
        /\ ReviewInFlight(rid) =>
               /\ review_calls[rid] = gen_calls[rid]
               /\ Len(candidates[rid]) = gen_calls[rid]
               /\ Len(decisions[rid]) = review_calls[rid] - 1

\* the second review call of a turn is in flight: two generation calls have
\* returned and one verdict has been handled
C15_Witness ==
    \E rid \in RequestIds :
        /\ ReviewInFlight(rid)
        /\ review_calls[rid] = 2
        /\ gen_calls[rid] = 2

\* C16: under fair scheduling of the generator and the reviewer, and with
\* every Completion Provider call eventually returning or raising, every
\* started turn eventually is APPROVED, FORCED_APPROVED or FAILED, whatever
\* the reviewer answers
C16_TurnTerminates ==
    \A rid \in RequestIds : TurnRunning(rid) ~> (Resolved(rid) \/ Raised(rid))

\* a turn whose every candidate was rejected, the full budget of regenerations
\* used, has ended force-approved
C16_Witness ==
    \E rid \in RequestIds :
        /\ resolution[rid] = "forced"
        /\ max_refinements = MaxRefinementsBound
        /\ RejectedAll(rid, MaxRefinementsBound + 1)

\* what a turn run on its own stores after its n-th candidate: the messages
\* built from its own request, its own candidates and the feedback of its own
\* reviews
RECURSIVE OwnBuffer(_, _)
OwnBuffer(rid, n) ==
    IF n <= 1
    THEN UserRequestMessages(turn[rid].request) \o candidates[rid][1]
    ELSE RetryMessages(OwnBuffer(rid, n - 1), sent_reviews[rid][n - 1],
                       turn[rid].request) \o candidates[rid][n]

\* the events a turn run on its own has produced: the approved candidate
OwnEvents(rid) ==
    IF decisions[rid] # << >> /\ Last(decisions[rid]).approved
    THEN <<ApprovedEvent(ReviewRequestOf(turn[rid].request,
                                         candidates[rid][Len(decisions[rid])]))>>
    ELSE << >>

\* C17: when turns with distinct ids run interleaved on the same generator
\* and reviewer, everything a turn holds is what the turn run alone computes
\* from its own request, candidates and verdicts: its pending entry and the
\* messages of its generation call (the working buffer), its counter (the
\* number of its own regenerations), the candidate under review, the
\* responses the reviewer sent, its events and its streamed final output
C17_TurnsAreIsolated ==
    \A rid \in RequestIds :
        /\ turn[rid].state # "unused" => turn[rid].request.request_id = rid
        /\ rid \in DOMAIN pending_requests =>
               /\ pending_requests[rid].request = turn[rid].request
               /\ pending_requests[rid].messages =
                      OwnBuffer(rid, Len(candidates[rid]))
        /\ rid \in DOMAIN refinement_counts =>
               refinement_counts[rid] = gen_calls[rid] - 1
        /\ rid \in DOMAIN gen =>
               /\ gen[rid].request = turn[rid].request
               /\ gen[rid].messages =
                      IF candidates[rid] = << >>
                      THEN UserRequestMessages(turn[rid].request)
                      ELSE RetryMessages(OwnBuffer(rid, Len(candidates[rid])),
                                         Last(sent_reviews[rid]), turn[rid].request)
        /\ rid \in DOMAIN rev =>
               rev[rid].request =
                   ReviewRequestOf(turn[rid].request, Last(candidates[rid]))
        /\ \A i \in 1..Len(sent_reviews[rid]) :
               sent_reviews[rid][i] =
                   ReviewResponseOf(turn[rid].request, decisions[rid][i])
        /\ gen_calls[rid] <= max_refinements + 1
        /\ events[rid] = OwnEvents(rid)
        /\ (Returned(rid) /\ ws_manager) =>
               turn[rid].response_text =
                   IF OwnEvents(rid) = << >> THEN << >>
                   ELSE CandidateText(Last(candidates[rid]))

\* two turns were in flight together, the first of them was rejected once and
\* regenerated while the second was running, and both have returned after an
\* approval of different candidates
C17_Witness ==
    /\ \A rid \in RequestIds : Returned(rid) /\ OwnEvents(rid) # << >>
    /\ Len(candidates["r1"]) = 2
    /\ Len(candidates["r2"]) = 1
    /\ Last(candidates["r1"]) # Last(candidates["r2"])
    /\ turn["r2"].request.conversation_history = << >>
    /\ ws_manager

\* C18: when the reviewer's reply does not decode to a ReviewDecision, the
\* turn fails (ValidationError leaves the workflow run): no ReviewResponse is
\* sent for that reply, no output event is emitted, and the reply is not
\* handled as a rejection: the counter holds only the regenerations of the
\* verdicts decoded before, and no generation call follows the review call
C18_MalformedVerdictAborts ==
    \A rid \in RequestIds :
        malformed[rid] =>
            /\ Raised(rid)
            /\ turn[rid].error = "ValidationError"
            /\ rid \notin DOMAIN rev
            /\ Len(sent_reviews[rid]) = review_calls[rid] - 1
            /\ Len(decisions[rid]) = review_calls[rid] - 1
            /\ ~ApprovalInFlight(rid) /\ ~RejectionInFlight(rid)
            /\ events[rid] = << >>
            /\ resolution[rid] = None
            /\ rid \in DOMAIN refinement_counts
            /\ refinement_counts[rid] = review_calls[rid] - 1
            /\ gen_calls[rid] = review_calls[rid]
            /\ Len(candidates[rid]) = review_calls[rid]
            /\ rid \notin DOMAIN gen

\* the reply to the second review call of a turn was malformed while the
\* budget still allowed a regeneration
C18_Witness ==
    \E rid \in RequestIds :
        /\ malformed[rid]
        /\ review_calls[rid] = 2
        /\ max_refinements = 2

\* the positions of the frames of a turn that have one of the given types
FramesOfType(rid, types) ==
    {i \in DOMAIN frames[rid] : frames[rid][i].type \in types}

\* C19: in streaming mode the frames broadcast for a turn that has failed
\* hold no agent_token, message or final_result frame and exactly one frame of
\* type error, which is the last frame of the turn
C19_FailedTurnStreamsOneError ==
    \A rid \in RequestIds :
        (ws_manager /\ Raised(rid)) =>
            /\ FramesOfType(rid, {"agent_token", "message", "final_result"}) = {}
            /\ Cardinality(FramesOfType(rid, {"error"})) = 1
            /\ Last(frames[rid]).type = "error"

\* a streaming turn failed in its second review call, after a candidate had
\* been rejected and regenerated
C19_Witness ==
    \E rid \in RequestIds :
        /\ ws_manager
        /\ Raised(rid)
        /\ review_calls[rid] = 2
        /\ turn[rid].error = "ProviderError"

\* no turn has started: no request exists, no Completion Provider call has
\* been made, and the history is as the agent was constructed
NoTurnStarted ==
    /\ \A rid \in RequestIds :
           /\ turn[rid].state = "unused"
           /\ gen_calls[rid] = 0
           /\ review_calls[rid] = 0
    /\ inbox = {}
    /\ gen = EmptyDict /\ rev = EmptyDict
    /\ conversation_history = << >>

\* C20: while a provider setting is missing and the workflow is not built,
\* chat_async cannot start a turn: whatever is called, the workflow stays
\* uninitialized, no PrimaryAgentRequest exists, no Completion Provider call is
\* made and the history is unchanged; a call that failed in setup changed
\* nothing but the fact that it failed. (That a later call with complete
\* settings initializes and runs is the witness.)
C20_IncompleteConfigurationFailsSetup ==
    /\ []((~initialized) => NoTurnStarted)
    /\ [][(config_missing # {} /\ ~initialized) => ~initialized']_vars
    /\ [][(setup_raised' /\ ~setup_raised) =>
              /\ config_missing # {}
              /\ UNCHANGED << service_vars, config_missing, initialized, turn, inbox, gen, rev,
                              gen_calls, review_calls, conversation_history,
                              pending_requests, refinement_counts, frames >>]_vars

\* a chat_async call failed in setup, the missing setting was supplied, and a
\* later call ran a turn to an approved answer
C20_Witness ==
    /\ setup_raised
    /\ initialized
    /\ \E rid \in RequestIds : Returned(rid) /\ resolution[rid] = "approved"

\* the copy of the history chat_async put into the request of a turn
Snapshot(rid) == turn[rid].request.conversation_history

\* the messages of a Completion Provider call carry the snapshot of the turn
\* right after the system message
CarriesSnapshot(messages, rid) ==
    /\ Len(messages) >= 1 + Len(Snapshot(rid))
    /\ SubSeq(messages, 2, 1 + Len(Snapshot(rid))) = Snapshot(rid)

\* C21: while a turn runs, up to and including its terminal state, the
\* session history is the snapshot taken at its start, and every generation
\* call and every review call of the turn, in every refinement round, is made
\* with exactly that snapshot
C21_HistoryIsSnapshot ==
    \A rid \in RequestIds :
        TurnRunning(rid) =>
            /\ conversation_history = Snapshot(rid)
            /\ rid \in DOMAIN gen =>
                   /\ gen[rid].request.conversation_history = Snapshot(rid)
                   /\ CarriesSnapshot(gen[rid].messages, rid)
            /\ rid \in DOMAIN rev =>
                   /\ rev[rid].request.conversation_history = Snapshot(rid)
                   /\ CarriesSnapshot(rev[rid].messages, rid)
            /\ rid \in DOMAIN pending_requests =>
                   /\ pending_requests[rid].request.conversation_history = Snapshot(rid)
                   /\ CarriesSnapshot(pending_requests[rid].messages, rid)

\* the second review call of a turn that started with a history of one
\* earlier turn is in flight
C21_Witness ==
    \E rid \in RequestIds :
        /\ TurnRunning(rid)
        /\ Len(Snapshot(rid)) = 2
        /\ ReviewInFlight(rid)
        /\ review_calls[rid] = 2

\* C22: a broadcast never raises when send_json fails on a subscriber: it
\* goes on and returns; when it has returned, every subscriber it was sending
\* to whose send did not fail has received the message, and every subscriber
\* whose send failed is no longer in the session's subscriber set
C22_BroadcastIsBestEffort ==
    /\ broadcasting.status \in {"idle", "sending", "returned"}
    /\ broadcasting.failed = broadcasting.dead
    /\ broadcasting.status = "returned" =>
           /\ \A ws \in broadcasting.targets \ broadcasting.failed :
                  /\ delivered[ws] # << >>
                  /\ Last(delivered[ws]) = broadcasting.message
           /\ \A ws \in broadcasting.failed : ws \notin Subscribers
           /\ Subscribers # {} <=> SessionId \in DOMAIN sessions

\* a broadcast to three subscribers has returned: the send to one of them
\* failed, the other two have the message and are still subscribed
C22_Witness ==
    /\ broadcasting.status = "returned"
    /\ Cardinality(broadcasting.targets) = 3
    /\ Cardinality(broadcasting.failed) = 1
    /\ \A ws \in broadcasting.targets \ broadcasting.failed : ws \in Subscribers

\* C23: every frame broadcast during a turn of the reflection workflow has a
\* type tag that is one of info, token, message, final_result, orchestrator,
\* error, done
C23_FrameTypesInContract ==
    \A rid \in RequestIds :
        \A i \in DOMAIN frames[rid] :
            frames[rid][i].type \in
                {"info", "token", "message", "final_result", "orchestrator",
                 "error", "done"}

\* a turn has ended: chat_async has returned or raised
Ended(rid) == Returned(rid) \/ Raised(rid)

\* C24: after a turn has ended in any terminal state, a failure of the
\* Completion Provider included, neither the pending table nor the
\* refinement-counter map holds the id of the turn
C24_TablesEmptyAfterTurn ==
    \A rid \in RequestIds :
        Ended(rid) =>
            /\ rid \notin DOMAIN pending_requests
            /\ rid \notin DOMAIN refinement_counts

\* C25: in every reachable state, also while a Completion Provider call for a
\* regeneration is in flight, an id has a refinement-counter entry if and only
\* if it has a pending-table entry
C25_CounterIffPending ==
    \A rid \in RequestIds :
        rid \in DOMAIN refinement_counts <=> rid \in DOMAIN pending_requests

\* a rejecting verdict for rid is taken from the generator's inbox in this step
RejectionConsumed(rid) ==
    \E review \in inbox \ inbox' :
        /\ review.type = "ReviewResponse"
        /\ review.request_id = rid
        /\ ~review.approved

\* the counter of rid is created at 0 by the first generation, and an existing
\* counter changes only by + 1, in a step that consumes a rejecting verdict
\* and starts a regeneration
CounterStep(rid) ==
    /\ (rid \notin DOMAIN refinement_counts /\ rid \in DOMAIN refinement_counts')
           => /\ refinement_counts'[rid] = 0
              /\ Len(candidates'[rid]) = 1
    /\ (/\ rid \in DOMAIN refinement_counts
        /\ rid \in DOMAIN refinement_counts'
        /\ refinement_counts'[rid] # refinement_counts[rid])
           => /\ refinement_counts'[rid] = refinement_counts[rid] + 1
              /\ RejectionConsumed(rid)
              /\ gen_calls'[rid] = gen_calls[rid] + 1

\* C26: the counter counts the refinements: it is 0 after the first
\* generation, grows by exactly 1 with each rejecting verdict that leads to a
\* regeneration, and no approving verdict changes it; whenever an id has a
\* pending entry awaiting review, the number of generation calls made for it
\* is its counter plus one
C26_CounterCountsRefinements ==
    /\ [](\A rid \in DOMAIN pending_requests :
            /\ rid \in DOMAIN refinement_counts
            /\ gen_calls[rid] = refinement_counts[rid] + 1)
    /\ [][\A rid \in RequestIds : CounterStep(rid)]_vars

\* a third candidate awaits review after two rejections
C26_Witness ==
    \E rid \in DOMAIN pending_requests :
        /\ rid \in DOMAIN refinement_counts
        /\ refinement_counts[rid] = 2
        /\ gen_calls[rid] = 3
        /\ Len(candidates[rid]) = 3

RECURSIVE IsSubsequence(_, _)
\* the elements of s occur in t in the order of s
IsSubsequence(s, t) ==
    IF s = << >> THEN TRUE
    ELSE IF t = << >> THEN FALSE
    ELSE IF Head(s) = Head(t) THEN IsSubsequence(Tail(s), Tail(t))
    ELSE IsSubsequence(s, Tail(t))

RECURSIVE Rounds(_, _)
\* the first n candidates of a turn, each followed by the feedback directive
\* of its verdict
Rounds(rid, n) ==
    IF n = 0 THEN << >>
    ELSE Rounds(rid, n - 1) \o candidates[rid][n]
             \o <<FeedbackDirective(decisions[rid][n].feedback)>>

\* a generation call for rid starts in this step
GenerationStarts(rid) == rid \notin DOMAIN gen /\ rid \in DOMAIN gen'

\* the context of a starting generation call and the buffer stored when it
\* returns
BufferStep(rid) ==
    /\ (GenerationStarts(rid) /\ candidates[rid] = << >>) =>
           gen'[rid].messages =
               <<SystemPreamble>> \o Snapshot(rid)
                   \o <<ChatMessage("user", turn[rid].prompt)>>
    /\ (GenerationStarts(rid) /\ candidates[rid] # << >>) =>
           /\ rid \in DOMAIN pending_requests
           /\ gen'[rid].messages =
                  pending_requests[rid].messages
                      \o <<FeedbackDirective(Last(decisions[rid]).feedback),
                           ChatMessage("user", turn[rid].prompt)>>
           /\ IsPrefix(pending_requests[rid].messages, gen'[rid].messages)
           /\ Len(gen'[rid].messages) > Len(pending_requests[rid].messages)
    /\ (rid \in DOMAIN gen /\ Len(candidates'[rid]) > Len(candidates[rid])) =>
           /\ rid \in DOMAIN pending_requests'
           /\ pending_requests'[rid].messages =
                  gen[rid].messages \o Last(candidates'[rid])

\* C27: the context of the first generation call is the system preamble, the
\* history snapshot and the user prompt; after a rejection the context of the
\* next call is the stored buffer (the previous context and the previous
\* candidate), the feedback directive of that verdict and the user prompt
\* again; so every context strictly extends the previous one and holds every
\* earlier candidate and feedback in order
C27_WorkingBufferConstruction ==
    /\ [](\A rid \in DOMAIN gen :
            /\ gen[rid].messages[1] = SystemPreamble
            /\ CarriesSnapshot(gen[rid].messages, rid)
            /\ Last(gen[rid].messages) = ChatMessage("user", turn[rid].prompt)
            /\ IsSubsequence(Rounds(rid, Len(candidates[rid])),
                             gen[rid].messages))
    /\ [][\A rid \in RequestIds : BufferStep(rid)]_vars

\* the third generation call of a turn that started with a non-empty history
\* is in flight, after two rejections
C27_Witness ==
    \E rid \in DOMAIN gen :
        /\ Len(candidates[rid]) = 2
        /\ Snapshot(rid) # << >>
        /\ gen[rid].kind = "retry"

\* the ReviewRequests the generator has sent and the reviewer has not taken
ReviewRequestsSent == {m \in inbox : m.type = "ReviewRequest"}

\* a ReviewRequest carries the id, the prompt and the history of the turn's
\* original request, and the output of the turn's latest generation call
CarriesOriginalRequest(m) ==
    LET rid == m.request_id IN
        /\ rid \in RequestIds
        /\ turn[rid].state # "unused"
        /\ turn[rid].request.request_id = rid
        /\ m.user_prompt = turn[rid].prompt
        /\ m.conversation_history = Snapshot(rid)
        /\ candidates[rid] # << >>
        /\ m.primary_agent_response = Last(candidates[rid])

\* C28: every ReviewRequest sent during a turn carries the request id, the
\* user prompt and the history of the turn's original request, the same in
\* every refinement round, and its candidate is the output of the latest
\* generation call, sent in the step in which that call returned
C28_ReviewRequestCarriesTurn ==
    /\ [](\A m \in ReviewRequestsSent : CarriesOriginalRequest(m))
    /\ [](\A rid \in DOMAIN rev : CarriesOriginalRequest(rev[rid].request))
    /\ [][\A m \in ReviewRequestsSent' \ ReviewRequestsSent :
            /\ m.request_id \in DOMAIN gen
            /\ candidates'[m.request_id] =
                   Append(candidates[m.request_id], m.primary_agent_response)]_vars

\* the second candidate of a turn, different from the rejected first one, has
\* been sent for review in a turn that started with a non-empty history
C28_Witness ==
    \E m \in ReviewRequestsSent :
        /\ Len(candidates[m.request_id]) = 2
        /\ candidates[m.request_id][1] # candidates[m.request_id][2]
        /\ m.primary_agent_response = candidates[m.request_id][2]
        /\ m.conversation_history # << >>
        /\ refinement_counts[m.request_id] = 1

\* the texts of the candidates a turn has generated
CandidateTexts(rid) ==
    { CandidateText(candidates[rid][i]) : i \in 1..Len(candidates[rid]) }

\* C29: at most one payload event is emitted for a request id over the whole
\* turn, whatever the verdicts were, and it holds the contents of one
\* candidate; so the final text accumulated in streaming mode is the text of
\* a single candidate, never a concatenation of several
C29_OnePayloadEventPerTurn ==
    \A rid \in RequestIds :
        /\ Len(events[rid]) <= 1
        /\ \A i \in 1..Len(events[rid]) :
               \E j \in 1..Len(candidates[rid]) :
                   /\ events[rid][i].contents = AllContents(candidates[rid][j])
                   /\ j <= Len(decisions[rid])
                   /\ decisions[rid][j].approved
        /\ ws_manager =>
               turn[rid].response_text \in {<< >>} \cup CandidateTexts(rid)

\* a streaming turn has returned the text of its third candidate, approved
\* after two rejections of candidates with other texts
C29_Witness ==
    \E rid \in RequestIds :
        /\ ws_manager
        /\ Returned(rid)
        /\ Len(candidates[rid]) = 3
        /\ Len(events[rid]) = 1
        /\ turn[rid].response_text = CandidateText(candidates[rid][3])
        /\ CandidateText(candidates[rid][1]) # CandidateText(candidates[rid][3])
        /\ CandidateText(candidates[rid][2]) # <<>>

\* the frames of a turn that end it on the streaming channel
TerminatingFrames(rid) == FramesOfType(rid, {"done", "error"})

\* ws_chat is back at receive_json and a prompt frame starts the next turn
AcceptsNextPrompt ==
    ENABLED (\E rid \in RequestIds, prompt \in Prompts : ChatAsync(rid, prompt))

\* C30: for every prompt frame that starts a turn on the streaming channel,
\* exactly one terminating frame is broadcast and it is the last frame of the
\* turn: a done frame if chat_async returned, an error frame and no done frame
\* if it raised; no frame of the turn follows it, and the connection loop
\* then accepts the next prompt frame
C30_OneTerminatingFrame ==
    /\ [](\A rid \in RequestIds :
            ws_manager =>
                /\ TurnRunning(rid) => TerminatingFrames(rid) = {}
                /\ Returned(rid) =>
                       /\ TerminatingFrames(rid) = {Len(frames[rid])}
                       /\ Last(frames[rid]).type = "done"
                /\ Raised(rid) =>
                       /\ TerminatingFrames(rid) = {Len(frames[rid])}
                       /\ Last(frames[rid]).type = "error"
                /\ (Ended(rid) /\ \E r \in RequestIds : turn[r].state = "unused")
                       => AcceptsNextPrompt)
    /\ [][\A rid \in RequestIds : Ended(rid) => frames'[rid] = frames[rid]]_vars

\* on one streaming channel a first turn raised and ended with an error
\* frame, and the next prompt started a second turn, which returned and
\* ended with a done frame after its token and result frames
C30_Witness ==
    /\ ws_manager
    /\ Raised("r1")
    /\ Last(frames["r1"]).type = "error"
    /\ Returned("r2")
    /\ Last(frames["r2"]).type = "done"
    /\ FramesOfType("r2", {"final_result"}) # {}
    /\ Cardinality(TerminatingFrames("r1")) = 1
    /\ Cardinality(TerminatingFrames("r2")) = 1

RECURSIVE TokenText(_)
\* the contents of the agent_token frames of a sequence of frames, concatenated
\* in the order of the frames
TokenText(fs) ==
    IF fs = << >> THEN << >>
    ELSE (IF Head(fs).type = "agent_token" THEN Head(fs).content ELSE << >>)
             \o TokenText(Tail(fs))

\* the turn's prompt and the text t are the pair the turn appended to the
\* session history, right after the snapshot it started from
RecordedInHistory(rid, t) ==
    LET k == Len(Snapshot(rid)) IN
        /\ Len(conversation_history) >= k + 2
        /\ conversation_history[k + 1] = ChatMessage("user", turn[rid].prompt)
        /\ conversation_history[k + 2] = ChatMessage("assistant", t)

\* C31: the frames of a streaming turn are ordered: the orchestrator plan
\* frame comes before every agent_token frame; a final_result frame, when
\* sent, comes after all agent_token frames and is directly followed by the
\* orchestrator result frame; and its content is the concatenation of the
\* turn's agent_token contents, the text chat_async returns, and the text
\* recorded in the history
C31_FramesAreOrdered ==
    \A rid \in RequestIds :
        ws_manager =>
            /\ FramesOfType(rid, {"agent_token"}) # {} =>
                   /\ frames[rid][1] = PlanFrame
                   /\ 1 \notin FramesOfType(rid, {"agent_token"})
            /\ \A i \in FramesOfType(rid, {"final_result"}) :
                   /\ \A j \in FramesOfType(rid, {"agent_token"}) : j < i
                   /\ i + 1 <= Len(frames[rid])
                   /\ frames[rid][i + 1] = ResultFrame
                   /\ frames[rid][i].content = TokenText(frames[rid])
                   /\ frames[rid][i].content = turn[rid].response_text
                   /\ Returned(rid)
                   /\ RecordedInHistory(rid, frames[rid][i].content)

\* a streaming turn returned a candidate of two text parts: two agent_token
\* frames, then the final_result frame with both texts, then the result frame
C31_Witness ==
    \E rid \in RequestIds :
        /\ ws_manager
        /\ Returned(rid)
        /\ Cardinality(FramesOfType(rid, {"agent_token"})) = 2
        /\ \E i \in FramesOfType(rid, {"final_result"}) :
               /\ Len(frames[rid][i].content) = 2
               /\ frames[rid][i + 1] = ResultFrame

\* C34: after any sequence of connect, disconnect and broadcast calls, no
\* session key maps to an empty set of sockets, a socket is in the set of a
\* session exactly if it was connected to the session and has not since been
\* disconnected from it or found dead in a broadcast to it, and a disconnect
\* of an unknown session or of a socket that is not registered changes
\* nothing
C34_SessionsHoldLiveSockets ==
    /\ [](\A session_id \in DOMAIN sessions : sessions[session_id] # {})
    /\ [](\A session_id \in SessionIds, ws \in WebSockets :
            ws \in subscribers(sessions, session_id)
                <=> <<session_id, ws>> \in registered)
    /\ [][\A session_id \in SessionIds, ws \in WebSockets :
            (ManagerDisconnect(session_id, ws)
                 /\ ws \notin subscribers(sessions, session_id))
                => sessions' = sessions]_vars

\* a broadcast to a session found every one of its sockets dead and removed
\* the session, while another session keeps its two sockets
C34_Witness ==
    /\ broadcasting.status = "returned"
    /\ broadcasting.dead # {}
    /\ broadcasting.session_id \notin DOMAIN sessions
    /\ \E session_id \in DOMAIN sessions : Cardinality(sessions[session_id]) = 2

\* the effect of one _fetch_jwks call for a tenant, by the time and the data
\* of the tenant's last successful network request
FetchStep(tenant_id) ==
    LET call == fetches'.last
        known == tenant_id \in DOMAIN fetches.fetched
    IN  /\ call.tenant = tenant_id /\ call.time = now
        /\ (known /\ now < fetches.fetched[tenant_id].time + 3600) =>
               /\ ~call.network
               /\ call.status = 200
               /\ call.data = fetches.fetched[tenant_id].data
        /\ (known /\ now >= fetches.fetched[tenant_id].time + 3600) => call.network
        /\ ~known => call.network
        /\ call.status = 503 =>
               /\ call.network
               /\ UNCHANGED << JWKS_CACHE, JWKS_CACHE_EXPIRATION >>
        /\ \A other \in Tenants \ {tenant_id} :
               /\ (other \in DOMAIN JWKS_CACHE') = (other \in DOMAIN JWKS_CACHE)
               /\ other \in DOMAIN JWKS_CACHE =>
                      /\ JWKS_CACHE'[other] = JWKS_CACHE[other]
                      /\ JWKS_CACHE_EXPIRATION'[other] = JWKS_CACHE_EXPIRATION[other]

\* C35: after a successful fetch of a tenant's keys at time t, every
\* _fetch_jwks call for the tenant strictly before t + 3600 returns the cached
\* keys without a network request, and a call at or after t + 3600 fetches
\* again; a failed fetch raises a 503 error and leaves the cached keys and the
\* expiration time as they were
C35_JwksCacheExpires ==
    /\ [](\A tenant_id \in DOMAIN fetches.fetched :
            /\ tenant_id \in DOMAIN JWKS_CACHE
            /\ JWKS_CACHE[tenant_id] = fetches.fetched[tenant_id].data
            /\ JWKS_CACHE_EXPIRATION[tenant_id] =
                   fetches.fetched[tenant_id].time + 3600)
    /\ [][\A tenant_id \in Tenants, outcome \in NetworkOutcomes :
            FetchJwksCall(tenant_id, outcome) => FetchStep(tenant_id)]_vars

\* the keys fetched at time 3600 were served from the cache at time 7199, and
\* at time 7200 a request for new keys failed: the call raised 503 and the
\* cache still holds the keys of time 3600
C35_Witness ==
    /\ now = 7200
    /\ fetches.last.status = 503
    /\ fetches.last.time = 7200
    /\ fetches.last.tenant \in DOMAIN fetches.fetched
    /\ fetches.fetched[fetches.last.tenant].time = 3600
    /\ JWKS_CACHE_EXPIRATION[fetches.last.tenant] = 7200

\* C36: after any sequence of /agents/set requests the current module is one
\* of the available agents and the active Agent class is the one loaded from
\* it; a request that names a module outside the available ones, or whose
\* module fails to load, is answered with an error status and changes neither
\* the current module nor the Agent class, and a successful one changes both
C36_ActiveAgentIsAvailable ==
    /\ [](/\ \E i \in DOMAIN AVAILABLE_AGENTS :
                 AVAILABLE_AGENTS[i] = CURRENT_AGENT_MODULE
          /\ AgentClass.module = CURRENT_AGENT_MODULE)
    /\ [][\A module_path \in RequestedModules, loads \in BOOLEAN :
            set_active_agent(module_path, loads) =>
                IF loads /\ \E i \in DOMAIN AVAILABLE_AGENTS :
                                 AVAILABLE_AGENTS[i] = module_path
                THEN /\ Last(http_log').status = "success"
                     /\ CURRENT_AGENT_MODULE' = module_path
                     /\ AgentClass'.module = module_path
                ELSE /\ Last(http_log').status = "error"
                     /\ UNCHANGED << CURRENT_AGENT_MODULE, AgentClass >>]_vars

\* the active agent was changed to the reflection workflow agent, and a later
\* request for a module that is not available was answered with an error
C36_Witness ==
    /\ Len(http_log) = 2
    /\ http_log[1] =
           Response("/agents/set", "reflection_workflow_agent", "success")
    /\ http_log[2] = Response("/agents/set", "unknown_agent", "error")
    /\ CURRENT_AGENT_MODULE = "reflection_workflow_agent"
    /\ AgentClass.module = "reflection_workflow_agent"

\* the store holds the same under key k before and after the step
KeyUnchanged(k) ==
    /\ (k \in DOMAIN STATE_STORE') = (k \in DOMAIN STATE_STORE)
    /\ k \in DOMAIN STATE_STORE => STATE_STORE'[k] = STATE_STORE[k]

\* C37: reset_session(S) removes exactly the keys S and S_chat_history of the
\* state store and leaves the keys of every other session unchanged; a second
\* reset, or a reset of a session with nothing stored, changes nothing; and
\* after it the history of S is empty
C37_ResetRemovesOnlyTheSession ==
    [][\A session_id \in StoreSessionIds :
          reset_session(session_id) =>
              /\ KeysOf(session_id) \cap DOMAIN STATE_STORE' = {}
              /\ \A other \in StoreSessionIds \ {session_id} :
                     \A k \in KeysOf(other) : KeyUnchanged(k)
              /\ AfterReset(STATE_STORE', session_id) = STATE_STORE'
              /\ KeysOf(session_id) \cap DOMAIN STATE_STORE = {}
                     => STATE_STORE' = STATE_STORE
              /\ HistoryIn(STATE_STORE', session_id) = << >>]_vars

\* a turn started by a prompt frame from the socket is running
TurnOf(ws) == handlers[ws].pc \in {"turn", "broadcast"}

\* C32: a socket receives the frames of every turn it starts: whatever frames
\* came over the connection before, frames that name other session ids
\* included, while a turn started by a prompt frame from socket W with session
\* id S is running, W is in the subscriber set of S
C32_StarterIsSubscribed ==
    \A ws \in ServiceSockets :
        (TurnOf(ws) /\ sockets[ws] = "open") =>
            ws \in subscribers(sessions, handlers[ws].session_id)

\* a frame on the socket is refused: an error frame is sent on the socket,
\* nothing is registered, no agent is constructed, no turn starts, and the
\* loop waits for the next frame
FrameRefused(ws) ==
    /\ Len(delivered'[ws]) = Len(delivered[ws]) + 1
    /\ Last(delivered'[ws]).type = "error"
    /\ \A other \in WebSockets \ {ws} : delivered'[other] = delivered[other]
    /\ UNCHANGED << sessions, registered, agents_created >>
    /\ handlers'[ws].pc = "receive"
    /\ handlers'[ws].connected_session = handlers[ws].connected_session

\* a /chat request is refused: an error status, and no agent is constructed
RequestRefused ==
    /\ Last(http_log').status \in {401, 403, 503}
    /\ UNCHANGED agents_created

\* C33: with authentication enabled no turn runs without a validated token,
\* on either entry point: a frame on a socket whose access_token is missing
\* or invalid gets an error frame on that socket and causes no registration,
\* no agent and no turn, and the loop goes on with the next frame; a /chat
\* request without a valid Bearer Authorization header is rejected before an
\* agent is created
C33_NoTurnWithoutValidToken ==
    /\ [](~DISABLE_AUTH =>
            /\ \A a \in agents_created : a.access_token = "valid"
            /\ \A ws \in ServiceSockets :
                   TurnOf(ws) => handlers[ws].access_token = "valid")
    /\ [][\A data \in AuthFrames, outcome \in ServiceOutcomes :
            (/\ ~DISABLE_AUTH
             /\ data.access_token # "valid"
             /\ ReceiveFrame("w1", data, outcome)) => FrameRefused("w1")]_vars
    /\ [][\A authorization \in Headers, session_id \in AuthSessionIds,
             outcome \in ServiceOutcomes :
            (/\ ~DISABLE_AUTH
             /\ ~(authorization.scheme = "Bearer" /\ authorization.token = "valid")
             /\ chat(authorization, session_id, outcome)) => RequestRefused]_vars

\* with authentication enabled, a socket was refused a token with status 401
\* and later ran a turn to its done frame with a valid token, and a /chat
\* request was refused with 401: the only agent made is the one of the socket
C33_Witness ==
    /\ ~DISABLE_AUTH
    /\ \E i, j \in DOMAIN delivered["w1"] :
           /\ i < j
           /\ delivered["w1"][i].type = "error"
           /\ delivered["w1"][i].status = "401"
           /\ delivered["w1"][j].type = "done"
    /\ \E k \in DOMAIN http_log : http_log[k].status = 401
    /\ \E session_id \in SessionIds :
           agents_created = {Created("ws_chat", session_id, "valid")}

====
